---------------------------- MODULE Spec2Model ----------------------------
(***************************************************************************)
(* Model of the KitProg adapter driver (src/src/jtag/drivers/kitprog.c):   *)
(* the SWD transaction queue (kitprog_swd_queue_cmd, kitprog_swd_run_queue) *)
(* and the adapter bring-up sequence (kitprog_init and the vendor control  *)
(* commands it issues); and of the PSoC 5LP flash driver                   *)
(* (src/src/flash/nor/psoc5.c), in the second part of the module.          *)
(*                                                                         *)
(* The specifications of the first part:                                   *)
(*   Spec     - the transaction queue, starting after a successful         *)
(*              kitprog_init;                                              *)
(*   SpecCtl  - kitprog_init step by step, followed by the adapter         *)
(*              commands that issue control transfers.                     *)
(***************************************************************************)
EXTENDS Integers, Sequences, FiniteSets, TLC

VARIABLES
    packet_size,            \* kitprog_handle->packet_size
    pending_queue_len,      \* capacity of pending_transfers
    pending_transfers,      \* the queue array, index 0 .. pending_queue_len-1
    pending_transfer_count, \* number of queued entries
    queued_retval,          \* the sticky queue error
    enq,                    \* history: arguments of the accepted enqueues since the last flush
    op,                     \* history: what the last queue operation did
    pc,                     \* position inside kitprog_init / adapter state
    init_ret,               \* return value of kitprog_init (NotReturned until it returns)
    calls,                  \* history: the calls made by the current handler
    cmd_ret,                \* return value of the last adapter command
    ncmds,                  \* number of adapter commands run after init
    kitprog_handle,         \* *kitprog_handle: usb_handle, hid_handle, serial
    usb_log,                \* history: the library calls kitprog_usb_open made
    target_state,           \* target->state of the flash bank's target
    bank,                   \* struct flash_bank: base, size, num_sectors, sectors
    psoc5_info,             \* bank->driver_priv (struct psoc5_flash_bank)
    fpc,                    \* position of the flash driver: idle, poll, aborted
    fop,                    \* history: what the last flash operation did
    probed_once             \* history: a probe of the bank has succeeded

vars == <<packet_size, pending_queue_len, pending_transfers,
          pending_transfer_count, queued_retval, enq, op,
          pc, init_ret, calls, cmd_ret, ncmds, kitprog_handle, usb_log,
          target_state, bank, psoc5_info, fpc, fop, probed_once>>

queue_vars == <<pending_transfers, pending_transfer_count,
                queued_retval, enq, op>>

usb_vars == <<kitprog_handle, usb_log>>

ctl_vars == <<pc, init_ret, calls, cmd_ret, ncmds, usb_vars>>

flash_vars == <<target_state, bank, psoc5_info, fpc, fop, probed_once>>

kitprog_vars == <<packet_size, pending_queue_len, queue_vars, ctl_vars>>

-----------------------------------------------------------------------------
(* Bounds of the model *)

\* Length of the packet buffer in the model.  The driver allocates
\* SWD_MAX_BUFFER_LENGTH bytes; the model keeps the driver's ratio of five
\* buffer bytes per queue entry and scales the buffer down.
BufferLength == 10

\* Number of adapter commands (reset_target, switch_seq) run after init.
MaxCommands == 2

-----------------------------------------------------------------------------
(* Program constants *)

SWD_MAX_BUFFER_LENGTH == 512

ERROR_OK == 0
ERROR_FAIL == -4
ERROR_JTAG_INIT_FAILED == -100

CONTROL_TYPE_READ == 1
CONTROL_TYPE_WRITE == 2

CONTROL_COMMAND_PROGRAM == 7

CONTROL_MODE_POLL_PROGRAMMER_STATUS == 1
CONTROL_MODE_RESET_TARGET == 4
CONTROL_MODE_SET_PROGRAMMER_PROTOCOL == 64
CONTROL_MODE_ACQUIRE_SWD_TARGET == 66
CONTROL_MODE_RESET_SWD_BUS == 67

PROGRAMMER_NOK_NACK == 0
PROGRAMMER_OK_ACK == 1

DEVICE_PSOC4 == 0
DEVICE_UNKNOWN == 1
DEVICE_PSOC5 == 3

ACQUIRE_MODE_RESET == 0

PROTOCOL_SWD == 1

EP_IN == 1
EP_OUT == 2

SWD_CMD_START == 1
SWD_CMD_RnW == 4
SWD_CMD_STOP == 64
SWD_CMD_PARK == 128

NULL == 0

\* Content of a field that was allocated and never assigned.
Uninit == NULL - 1

\* Value of init_ret while kitprog_init has not returned.
NotReturned == ERROR_OK + 1

\* kitprog_handle->packet_buffer as a flush finds it, index 0 .. length-1.
\* malloc does not initialise it and earlier flushes leave their bytes in it:
\* every byte the current flush has not written is indeterminate.
packet_buffer(length) == [k \in 0 .. length - 1 |-> Uninit]

-----------------------------------------------------------------------------
(* Bytes and words *)

RECURSIVE BitOr(_, _)
BitOr(a, b) ==
    IF a = 0 /\ b = 0 THEN 0
    ELSE (IF a % 2 = 1 \/ b % 2 = 1 THEN 1 ELSE 0) + 2 * BitOr(a \div 2, b \div 2)

RECURSIVE BitAnd(_, _)
BitAnd(a, b) ==
    IF a = 0 \/ b = 0 THEN 0
    ELSE (IF a % 2 = 1 /\ b % 2 = 1 THEN 1 ELSE 0) + 2 * BitAnd(a \div 2, b \div 2)

\* a & ~b on uint8_t
BitClear(a, b) == a - BitAnd(a, b)

\* A uint32_t is the tuple of its four bytes, most significant first, as the
\* hexadecimal numeral is written: 0xAABBCCDD is <<170, 187, 204, 221>>.
Word(b3, b2, b1, b0) == << b3, b2, b1, b0 >>

\* (w >> (8 * k)) & 0xff for k = 0 .. 3
ByteOf(w, k) == w[4 - k]

\* le_to_h_u32(&buf[i])
le_to_h_u32(buf, i) == Word(buf[i + 3], buf[i + 2], buf[i + 1], buf[i])


-----------------------------------------------------------------------------
(* Inputs of the transaction queue *)

\* Command bytes as callers pass them, without the start and park bits: a
\* write with bit 6 and an address bit set (0x48) and DP read IDCODE with its
\* parity bit (0x24).
WriteCmds == {72}
ReadCmds == {36}

\* Payloads of the queued writes: 0xAABBCCDD and 0x01020304.
WriteData == {Word(170, 187, 204, 221), Word(1, 2, 3, 4)}

\* The callers' output words; a read may also be queued with dst = NULL.
Slots == {1, 2}

\* Byte k of a bulk-read response: every position carries a different byte.
Seeds == {16}
Resp(seed, k) == (seed + 7 * k) % 256

-----------------------------------------------------------------------------
(* kitprog_swd_run_queue *)

IsRead(cmd) == BitAnd(cmd, SWD_CMD_RnW) # 0

\* Mutant of Header: the stop bit of the command byte is sent as it came.
Header_StopKept(cmd) == BitOr(BitOr(cmd, SWD_CMD_START), SWD_CMD_PARK)

\* buffer[write_count++] = (cmd | SWD_CMD_START | SWD_CMD_PARK) & ~SWD_CMD_STOP
Header(cmd) == BitClear(BitOr(BitOr(cmd, SWD_CMD_START), SWD_CMD_PARK), SWD_CMD_STOP)

\* The bytes the first loop appends for entry e.
EntryBytes(e) ==
    IF ~IsRead(e.cmd)
    THEN << Header(e.cmd),
            ByteOf(e.data, 0),
            ByteOf(e.data, 1),
            ByteOf(e.data, 2),
            ByteOf(e.data, 3) >>
    ELSE << Header(e.cmd) >>

\* Mutant of Serialize: the loop runs from the last entry down to the first.
RECURSIVE Serialize_Backwards(_, _)
Serialize_Backwards(q, n) ==
    IF n = 0 THEN << >> ELSE EntryBytes(q[n - 1]) \o Serialize_Backwards(q, n - 1)

\* The iterations i = lo .. hi-1 of the first loop: the bytes they append to
\* the buffer.  An iteration appends its bytes after those of the iterations
\* before it, so a range of iterations is the range's first half followed by
\* its second half.
RECURSIVE SerializeRange(_, _, _)
SerializeRange(q, lo, hi) ==
    IF hi <= lo THEN << >>
    ELSE IF hi = lo + 1 THEN EntryBytes(q[lo])
    ELSE LET mid == (lo + hi) \div 2
         IN  SerializeRange(q, lo, mid) \o SerializeRange(q, mid, hi)

\* The first loop over i = 0 .. n-1: the bytes written to buffer[0 ..].
Serialize(q, n) == SerializeRange(q, 0, n)

\* What the iterations i = lo .. hi-1 of the first loop add to read_count.
RECURSIVE ReadCountRange(_, _, _)
ReadCountRange(q, lo, hi) ==
    IF hi <= lo THEN 0
    ELSE IF hi = lo + 1 THEN 1 + (IF IsRead(q[lo].cmd) THEN 4 ELSE 0)
    ELSE LET mid == (lo + hi) \div 2
         IN  ReadCountRange(q, lo, mid) + ReadCountRange(q, mid, hi)

\* read_count after the first loop over i = 0 .. n-1.
ReadCount(q, n) == ReadCountRange(q, 0, n)

\* Mutant of GarbageOffset: decoding always starts at the first byte.
GarbageOffset_None(ret, read_count) == 0

\* Handle garbage data by offsetting the initial read index.
GarbageOffset(ret, read_count) ==
    IF ret > read_count THEN ret - read_count ELSE 0

\* Mutant of DecodeEntry: the store is made for every entry whose buffer
\* field is set, without looking at the direction of the access.
DecodeEntry_AnyDirection(q, i, buf, d) ==
    [ read_index |-> d.read_index + (IF IsRead(q[i].cmd) THEN 5 ELSE 1),
      stores |-> IF q[i].buffer # NULL
                 THEN Append(d.stores,
                             [slot |-> q[i].buffer,
                              value |-> le_to_h_u32(buf, d.read_index),
                              entry |-> i, index |-> d.read_index])
                 ELSE d.stores ]

\* Mutant of DecodeEntry: the result of a read is stored only when the ack
\* byte that follows it is 1.
DecodeEntry_AckTested(q, i, buf, d) ==
    IF IsRead(q[i].cmd)
    THEN LET data == le_to_h_u32(buf, d.read_index)
         IN  [ read_index |-> d.read_index + 4 + 1,
               stores |-> IF q[i].buffer # NULL /\ buf[d.read_index + 4] = 1
                          THEN Append(d.stores,
                                      [slot |-> q[i].buffer, value |-> data,
                                       entry |-> i, index |-> d.read_index])
                          ELSE d.stores ]
    ELSE [d EXCEPT !.read_index = d.read_index + 1]

\* One iteration of the second loop, for entry i at cursor read_index.
\* d.stores lists the stores *(uint32_t *)pending_transfers[i].buffer = data
\* made so far: the word stored, the caller's word it went to, the entry it
\* belongs to and the buffer index it was decoded from.
DecodeEntry(q, i, buf, d) ==
    IF IsRead(q[i].cmd)
    THEN LET data == le_to_h_u32(buf, d.read_index)
         IN  [ read_index |-> d.read_index + 4 + 1,
               stores |-> IF q[i].buffer # NULL
                          THEN Append(d.stores,
                                      [slot |-> q[i].buffer, value |-> data,
                                       entry |-> i, index |-> d.read_index])
                          ELSE d.stores ]
    ELSE [d EXCEPT !.read_index = d.read_index + 1]

\* The iterations i = lo .. hi-1 of the second loop, entered with the cursor
\* and the stores d0: the first half of a range leaves d1, and the second
\* half runs from d1.
RECURSIVE DecodeRange(_, _, _, _, _)
DecodeRange(q, lo, hi, buf, d0) ==
    IF hi <= lo THEN d0
    ELSE IF hi = lo + 1 THEN DecodeEntry(q, lo, buf, d0)
    ELSE LET mid == (lo + hi) \div 2
         IN  CHOOSE d2 \in { DecodeRange(q, mid, hi, buf, d1) :
                                 d1 \in { DecodeRange(q, lo, mid, buf, d0) } } : TRUE

\* The second loop over i = 0 .. n-1.
Decode(q, n, buf, d0) == DecodeRange(q, 0, n, buf, d0)

\* buf with bytes[1 ..] copied to buf[0 ..].
Fill(buf, bytes) ==
    [k \in DOMAIN buf |-> IF k < Len(bytes) THEN bytes[k + 1] ELSE buf[k]]

\* The bytes a bulk read of ret bytes delivers.
Response(seed, ret) == [k \in 1 .. (IF ret > 0 THEN ret ELSE 0) |-> Resp(seed, k - 1)]

\* What the USB layer can answer to one flush: the return value of the bulk
\* write (an error, nothing, or everything), the return value of the bulk
\* read and the bytes it delivers.
BulkWriteRets(write_count) == {-1, 0, write_count}
BulkReadRets(read_count) ==
    {-1, 0, read_count - 1, read_count, read_count + 3, packet_size}
        \cap (-1 .. packet_size)
NoIO == [wret |-> 0, rret |-> 0, seed |-> 0]
FlushIO ==
    IF queued_retval # ERROR_OK \/ pending_transfer_count = 0
    THEN {NoIO}
    ELSE [wret : BulkWriteRets(Len(Serialize(pending_transfers, pending_transfer_count))),
          rret : BulkReadRets(ReadCount(pending_transfers, pending_transfer_count)),
          seed : Seeds]

\* The outcome of kitprog_swd_run_queue() in the current state when the USB
\* layer answers io: the new values of the variables it assigns, its return
\* value and the transfers and stores it made.  On every path it also sets
\* pending_transfer_count = 0 and queued_retval = ERROR_OK (RunQueueExit).
\* The bulk read asks for SWD_MAX_BUFFER_LENGTH bytes, the value kitprog_init
\* stored in packet_size.
\* Mutant of RunQueueSkipped: the sticky error is cleared before it is read.
RunQueueSkipped_ErrorLost == [bulk |-> << >>, stores |-> << >>, ret |-> ERROR_OK]

\* The flush that transmits nothing: a sticky error is set ("Skipping due to
\* previous errors") or the queue is empty.  retval = queued_retval.
RunQueueSkipped == [bulk |-> << >>, stores |-> << >>, ret |-> queued_retval]

\* Mutant of BulkReadLength: the read asks for the expected bytes only.
BulkReadLength_Expected(read_count) == read_count

\* "We use the maximum buffer size here": the bulk read asks for
\* SWD_MAX_BUFFER_LENGTH bytes, the size of the packet buffer.
BulkReadLength(read_count) == packet_size

\* Mutant of BulkOk: a transfer that moved no byte counts as done.
BulkOk_ZeroBytes(ret) == ret >= 0

\* if (ret > 0) after each of the two bulk transfers
BulkOk(ret) == ret > 0

\* kitprog_swd_run_queue() when the bulk write returns io.wret and the bulk
\* read returns io.rret and delivers the bytes resp.
RunQueueWith(io, resp) ==
    LET q == pending_transfers
        n == pending_transfer_count
        bytes == Serialize(q, n)
        write_count == Len(bytes)
        read_count == ReadCount(q, n)
        wbuf == Fill(packet_buffer(packet_size), bytes)
        out == [ep |-> EP_OUT, length |-> write_count, data |-> bytes, ret |-> io.wret]
        rbuf == Fill(wbuf, resp)
        in == [ep |-> EP_IN, length |-> BulkReadLength(read_count),
               data |-> resp, ret |-> io.rret]
        d == Decode(q, n, rbuf,
                    [read_index |-> GarbageOffset(io.rret, read_count),
                     stores |-> << >>])
    IN  IF queued_retval # ERROR_OK
        THEN RunQueueSkipped
        ELSE IF n = 0
        THEN RunQueueSkipped
        ELSE IF ~BulkOk(io.wret)
        THEN [bulk |-> << out >>, stores |-> << >>, ret |-> ERROR_FAIL]
        ELSE IF ~BulkOk(io.rret)
        THEN [bulk |-> << out, in >>, stores |-> << >>, ret |-> ERROR_FAIL]
        ELSE [bulk |-> << out, in >>, stores |-> d.stores, ret |-> ERROR_OK]

kitprog_swd_run_queue(io) == RunQueueWith(io, Response(io.seed, io.rret))


-----------------------------------------------------------------------------
(* kitprog_swd_queue_cmd *)

\* The assignments that store the new entry at index n of queue q.  A write
\* leaves the entry's buffer field as it was.  An index past the end of the
\* array does not land in the array.
StoreEntry(q, n, cmd, dst, data) ==
    IF n \notin DOMAIN q THEN q
    ELSE IF IsRead(cmd)
    THEN [q EXCEPT ![n] = [cmd |-> cmd, data |-> data, buffer |-> dst]]
    ELSE [q EXCEPT ![n] = [cmd |-> cmd, data |-> data, buffer |-> q[n].buffer]]

\* Mutant of QueueFull: the flush is forced one entry early.
QueueFull_OneEarly == pending_transfer_count = pending_queue_len - 1

\* Mutant of QueueFull: the comparison lets one entry too many in.
QueueFull_OneLate == pending_transfer_count > pending_queue_len

\* Not enough room in the queue: pending_transfer_count == pending_queue_len
QueueFull == pending_transfer_count = pending_queue_len

\* Mutant of RunQueueExit: the flush leaves the pending count as it was.
RunQueueExit_CountKept == [count |-> pending_transfer_count, qret |-> ERROR_OK]

\* pending_transfer_count = 0; retval = queued_retval; queued_retval = ERROR_OK
RunQueueExit == [count |-> 0, qret |-> ERROR_OK]

\* Mutant of ImplicitFlushRetval: the return value of the flush is not kept.
ImplicitFlushRetval_Ignored(r) == RunQueueExit.qret

\* queued_retval = kitprog_swd_run_queue(), for the flush outcome r
ImplicitFlushRetval(r) == r.ret

\* The outcome of kitprog_swd_queue_cmd(cmd, dst, data) in the current state
\* when the USB layer answers io to the flush it may run.
kitprog_swd_queue_cmd(cmd, dst, data, io) ==
    LET full == QueueFull
        r == kitprog_swd_run_queue(io)
        \* state after the optional flush; queued_retval = kitprog_swd_run_queue()
        count1 == IF full THEN RunQueueExit.count ELSE pending_transfer_count
        qret1 == IF full THEN ImplicitFlushRetval(r) ELSE queued_retval
        stored == qret1 = ERROR_OK
    IN  [ flushes |-> IF full THEN 1 ELSE 0,
          ret |-> IF full THEN r.ret ELSE ERROR_OK,
          bulk |-> IF full THEN r.bulk ELSE << >>,
          stores |-> IF full THEN r.stores ELSE << >>,
          qret |-> qret1,
          stored |-> stored,
          q |-> IF stored
                THEN StoreEntry(pending_transfers, count1, cmd, dst, data)
                ELSE pending_transfers,
          count |-> IF stored THEN count1 + 1 ELSE count1 ]

-----------------------------------------------------------------------------
(* The transaction queue as a state machine *)

Zero == Word(0, 0, 0, 0)

NoOp == [name |-> "none", cmd |-> 0, dst |-> NULL, data |-> Zero,
         pre_count |-> 0, pre_qret |-> ERROR_OK, batch |-> << >>,
         flushes |-> 0, ret |-> ERROR_OK, bulk |-> << >>, stores |-> << >>,
         stored |-> FALSE]

\* No flash bank is configured: the flash driver has no state and is never
\* called.
NoFlashBank ==
    /\ target_state = "TARGET_UNKNOWN"
    /\ bank = NULL
    /\ psoc5_info = NULL
    /\ fpc = "idle"
    /\ fop = NULL
    /\ probed_once = FALSE

\* Mutant of QueueLen: four buffer bytes are counted per queue entry.
QueueLen_FourBytes(length) == length \div 4

\* pending_queue_len = SWD_MAX_BUFFER_LENGTH / 5
QueueLen(length) == length \div 5

\* The state kitprog_init leaves behind when it returns ERROR_OK, with a
\* packet buffer of BufferLength bytes.  malloc does not initialise the
\* queue array.
Init ==
    /\ packet_size = BufferLength
    /\ pending_queue_len = QueueLen(BufferLength)
    /\ pending_transfers =
           [i \in 0 .. QueueLen(BufferLength) - 1 |->
               [cmd |-> Uninit, data |-> Word(Uninit, Uninit, Uninit, Uninit),
                buffer |-> Uninit]]
    /\ pending_transfer_count = 0
    /\ queued_retval = ERROR_OK
    /\ enq = << >>
    /\ op = NoOp
    /\ pc = "ready"
    /\ init_ret = ERROR_OK
    /\ calls = << >>
    /\ cmd_ret = ERROR_OK
    /\ ncmds = 0
    /\ kitprog_handle = [usb_handle |-> 1, hid_handle |-> 1, serial |-> 1]
    /\ usb_log = << >>
    /\ NoFlashBank

\* The effect of kitprog_swd_queue_cmd(cmd, dst, data) on the state.
QueueCmd(name, cmd, dst, data) ==
    \E io \in (IF QueueFull THEN FlushIO ELSE {NoIO}) :
        LET r == kitprog_swd_queue_cmd(cmd, dst, data, io)
            arg == [read |-> name = "read_reg", cmd |-> cmd, dst |-> dst,
                    data |-> data]
        IN  /\ pending_transfers' = r.q
            /\ pending_transfer_count' = r.count
            /\ queued_retval' = r.qret
            /\ enq' = IF r.stored
                      THEN Append(IF r.flushes > 0 THEN << >> ELSE enq, arg)
                      ELSE IF r.flushes > 0 THEN << >> ELSE enq
            /\ op' = [name |-> name, cmd |-> cmd, dst |-> dst, data |-> data,
                      pre_count |-> pending_transfer_count,
                      pre_qret |-> queued_retval,
                      batch |-> enq,
                      flushes |-> r.flushes, ret |-> r.ret, bulk |-> r.bulk,
                      stores |-> r.stores, stored |-> r.stored]
            /\ UNCHANGED <<packet_size, pending_queue_len, flash_vars, ctl_vars>>

\* kitprog_swd_write_reg(cmd, value, ap_delay_clk): assert(!(cmd & SWD_CMD_RnW))
WriteReg ==
    \E cmd \in WriteCmds, value \in WriteData :
        /\ pc = "ready"
        /\ ~IsRead(cmd)
        /\ QueueCmd("write_reg", cmd, NULL, value)

\* kitprog_swd_read_reg(cmd, value, ap_delay_clk): assert(cmd & SWD_CMD_RnW)
ReadReg ==
    \E cmd \in ReadCmds, value \in Slots \cup {NULL} :
        /\ pc = "ready"
        /\ IsRead(cmd)
        /\ QueueCmd("read_reg", cmd, value, Zero)

\* The SWD layer runs the queue: kitprog_swd.run = kitprog_swd_run_queue
RunQueue ==
    \E io \in FlushIO :
        LET r == kitprog_swd_run_queue(io)
        IN  /\ pc = "ready"
            /\ pending_transfer_count' = RunQueueExit.count
            /\ queued_retval' = RunQueueExit.qret
            /\ enq' = << >>
            /\ op' = [name |-> "run", cmd |-> 0, dst |-> NULL, data |-> Zero,
                      pre_count |-> pending_transfer_count,
                      pre_qret |-> queued_retval,
                      batch |-> enq,
                      flushes |-> 1, ret |-> r.ret, bulk |-> r.bulk,
                      stores |-> r.stores, stored |-> FALSE]
            /\ UNCHANGED <<pending_transfers, packet_size, pending_queue_len, flash_vars, ctl_vars>>

Next == WriteReg \/ ReadReg \/ RunQueue

Spec == Init /\ [][Next]_vars

-----------------------------------------------------------------------------
(* Flushes of the queue at the driver's size *)

\* How the reads and writes of a queue content are mixed.
Patterns == {"reads", "writes", "alternating", "reads_first", "writes_first"}

\* Numbers of queued entries for a queue of capacity cap.
FillLevels(cap) == {1, 2, cap \div 2, cap - 1, cap}

\* The i-th of n enqueue calls of a pattern: a read into word 1 or a write
\* of 0xAABBCCDD.
PatternCall(pat, i, n) ==
    LET read == CASE pat = "reads" -> TRUE
                  [] pat = "writes" -> FALSE
                  [] pat = "alternating" -> i % 2 = 1
                  [] pat = "reads_first" -> 2 * i <= n
                  [] OTHER -> 2 * i > n
    IN  IF read
        THEN [read |-> TRUE, cmd |-> 36, dst |-> 1, data |-> Zero]
        ELSE [read |-> FALSE, cmd |-> 72, dst |-> NULL,
              data |-> Word(170, 187, 204, 221)]

\* The queue array q after the enqueue calls args[1 .. n], none of which
\* met a full queue: call i stored entry i - 1.
Enqueued(q, args, n) ==
    [i \in DOMAIN q |->
        IF i < n
        THEN StoreEntry(q, i, args[i + 1].cmd, args[i + 1].dst,
                        args[i + 1].data)[i]
        ELSE q[i]]

\* The state after a successful kitprog_init (packet buffer of
\* SWD_MAX_BUFFER_LENGTH bytes) and n accepted enqueue calls of one pattern.
InitBuf ==
    \E pat \in Patterns, n \in FillLevels(QueueLen(SWD_MAX_BUFFER_LENGTH)) :
        LET cap == QueueLen(SWD_MAX_BUFFER_LENGTH)
            args == [i \in 1 .. n |-> PatternCall(pat, i, n)]
            fresh == [i \in 0 .. cap - 1 |->
                         [cmd |-> Uninit,
                          data |-> Word(Uninit, Uninit, Uninit, Uninit),
                          buffer |-> Uninit]]
        IN  /\ packet_size = SWD_MAX_BUFFER_LENGTH
            /\ pending_queue_len = cap
            /\ pending_transfers = Enqueued(fresh, args, n)
            /\ pending_transfer_count = n
            /\ queued_retval = ERROR_OK
            /\ enq = args
            /\ op = NoOp
            /\ pc = "ready"
            /\ init_ret = ERROR_OK
            /\ calls = << >>
            /\ cmd_ret = ERROR_OK
            /\ ncmds = 0
            /\ kitprog_handle = [usb_handle |-> 1, hid_handle |-> 1, serial |-> 1]
            /\ usb_log = << >>
            /\ NoFlashBank

NextBuf == RunQueue

SpecBuf == InitBuf /\ [][NextBuf]_vars


-----------------------------------------------------------------------------
(* Vendor control commands *)

\* What jtag_libusb_control_transfer can answer: n is its return value (the
\* number of bytes moved, or a negative error) and st the status byte the
\* adapter sent.  The byte reaches the caller's status variable only when a
\* byte was moved.
StatusBytes == {PROGRAMMER_NOK_NACK, PROGRAMMER_OK_ACK, 2}
Transfers ==
    {[n |-> -1, st |-> PROGRAMMER_NOK_NACK], [n |-> 0, st |-> PROGRAMMER_NOK_NACK]}
        \cup {[n |-> 1, st |-> b] : b \in StatusBytes}

\* The caller's status variable after a transfer answered x.
StatusAfter(status, x) == IF x.n > 0 THEN x.st ELSE status

\* (mode << 8) | CONTROL_COMMAND_PROGRAM
ControlValue(mode) == BitOr(mode * 256, CONTROL_COMMAND_PROGRAM)

\* Mutant of CheckTransfer: the status byte is not looked at.
CheckTransfer_CountOnly(transferred, status) ==
    IF transferred = 0 THEN ERROR_FAIL ELSE ERROR_OK

\* The two checks every control command makes after its transfer:
\* transferred == 0 fails, then status != PROGRAMMER_OK_ACK fails.
CheckTransfer(transferred, status) ==
    IF transferred = 0 THEN ERROR_FAIL
    ELSE IF status # PROGRAMMER_OK_ACK THEN ERROR_FAIL
    ELSE ERROR_OK

\* A command that issues one transfer, answered x.  status starts as
\* PROGRAMMER_NOK_NACK.
OneTransfer(fn, type, value, index, x) ==
    [fn |-> fn, type |-> type, value |-> value, index |-> index,
     xfers |-> << x >>,
     ret |-> CheckTransfer(x.n, StatusAfter(PROGRAMMER_NOK_NACK, x))]

kitprog_set_protocol(protocol, x) ==
    OneTransfer("set_protocol", CONTROL_TYPE_WRITE,
                ControlValue(CONTROL_MODE_SET_PROGRAMMER_PROTOCOL), protocol, x)

\* The request value is (0x03 << 8) | 0x04.
kitprog_set_unknown(x) ==
    OneTransfer("set_unknown", CONTROL_TYPE_WRITE, BitOr(3 * 256, 4), 0, x)

\* index = (max_attempts << 8) | (acquire_mode << 4) | psoc_type
kitprog_acquire_psoc(psoc_type, acquire_mode, max_attempts, x) ==
    OneTransfer("acquire_psoc", CONTROL_TYPE_WRITE,
                ControlValue(CONTROL_MODE_ACQUIRE_SWD_TARGET),
                BitOr(BitOr(max_attempts * 256, acquire_mode * 16), psoc_type), x)

kitprog_reset_target(x) ==
    OneTransfer("reset_target", CONTROL_TYPE_WRITE,
                ControlValue(CONTROL_MODE_RESET_TARGET), 0, x)

kitprog_swd_reset(x) ==
    OneTransfer("swd_reset", CONTROL_TYPE_WRITE,
                ControlValue(CONTROL_MODE_RESET_SWD_BUS), 0, x)

\* Mutant of MaxStatusAttempts: the loop bound is one too high.
MaxStatusAttempts_OneMore == 3 + 1

\* Try a maximum of three times
MaxStatusAttempts == 3

\* for (int i = 0; (i < 3) && (transferred == 0); i++): attempt i + 1 is
\* answered xs[i + 1].  l holds i, transferred, status and the transfers made.
RECURSIVE GetStatusLoop(_, _)
GetStatusLoop(xs, l) ==
    IF l.i < MaxStatusAttempts /\ l.transferred = 0
    THEN GetStatusLoop(xs, [i |-> l.i + 1,
                            transferred |-> xs[l.i + 1].n,
                            status |-> StatusAfter(l.status, xs[l.i + 1]),
                            xfers |-> Append(l.xfers, xs[l.i + 1])])
    ELSE l

kitprog_get_status(xs) ==
    LET l == GetStatusLoop(xs, [i |-> 0, transferred |-> 0,
                                status |-> PROGRAMMER_NOK_NACK, xfers |-> << >>])
    IN  [fn |-> "get_status", type |-> CONTROL_TYPE_READ,
         value |-> ControlValue(CONTROL_MODE_POLL_PROGRAMMER_STATUS), index |-> 0,
         xfers |-> l.xfers,
         ret |-> CheckTransfer(l.transferred, l.status)]

\* The answers to the (up to) three transfers of one kitprog_get_status call.
StatusAnswers == [1 .. MaxStatusAttempts -> Transfers]

\* A call that issues no control transfer (USB open, HID exchange, malloc).
OtherCall(fn, ok) ==
    [fn |-> fn, type |-> 0, value |-> 0, index |-> 0, xfers |-> << >>,
     ret |-> IF ok THEN ERROR_OK ELSE ERROR_FAIL]


-----------------------------------------------------------------------------
(* kitprog_usb_open and kitprog_get_usb_serial *)

\* The adapters plugged in, each named by its number; the string that holds
\* the serial number of adapter u is named u as well.
Units == {1, 2}

\* A pointer to memory that was passed to free().
Freed == Uninit - 1

\* The answer of a library call that does not return.
Crashed == Uninit - 2

\* kitprog_handle = malloc(sizeof(struct kitprog)): malloc does not
\* initialise the fields.
AllocatedHandle ==
    [usb_handle |-> Uninit, hid_handle |-> Uninit, serial |-> Uninit]

\* One library call made by kitprog_usb_open: its argument and its result.
LibCall(fn, arg, ret) == [fn |-> fn, arg |-> arg, ret |-> ret]

\* What reading and converting the serial descriptor can end in.
SerialOutcomes ==
    {"descriptor_failed", "calloc_failed", "mbstowcs_failed", "converted"}

\* kitprog_get_usb_serial() on the handle h.  A failed descriptor read
\* returns before serial is assigned; a failed calloc leaves NULL in it; a
\* failed conversion frees the string and leaves the pointer in place (the
\* variable set to NULL there is kitprog_serial, the serial the user asked
\* for).
kitprog_get_usb_serial(h, outcome) ==
    LET desc(ret) == LibCall("libusb_get_string_descriptor_ascii",
                             h.usb_handle, ret)
    IN  IF outcome = "descriptor_failed"
        THEN [handle |-> h, log |-> << desc(-1) >>, ret |-> ERROR_FAIL]
        ELSE IF outcome = "calloc_failed"
        THEN [handle |-> [h EXCEPT !.serial = NULL],
              log |-> << desc(ERROR_OK), LibCall("calloc", NULL, NULL) >>,
              ret |-> ERROR_FAIL]
        ELSE IF outcome = "mbstowcs_failed"
        THEN [handle |-> [h EXCEPT !.serial = Freed],
              log |-> << desc(ERROR_OK),
                         LibCall("calloc", NULL, h.usb_handle),
                         LibCall("mbstowcs", h.usb_handle, -1),
                         LibCall("free", h.usb_handle, NULL) >>,
              ret |-> ERROR_FAIL]
        ELSE [handle |-> [h EXCEPT !.serial = h.usb_handle],
              log |-> << desc(ERROR_OK),
                         LibCall("calloc", NULL, h.usb_handle),
                         LibCall("mbstowcs", h.usb_handle, ERROR_OK) >>,
              ret |-> ERROR_OK]

\* hid_open(VID, PID, serial): the handles it can return.  With the serial
\* number of an adapter it opens that adapter or fails; with NULL it opens
\* the first adapter it finds; reading an indeterminate or freed pointer is
\* undefined: any adapter, a failure, or no return at all.
hid_open(serial) ==
    IF serial \in Units THEN {NULL, serial}
    ELSE IF serial = NULL THEN {NULL} \cup Units
    ELSE {NULL, Crashed} \cup Units

\* What the libraries can answer to one kitprog_usb_open: the adapter
\* jtag_libusb_open found (NULL: none), whether the interface was claimed,
\* how the read of the serial number ended and what hid_open returned.  The
\* bulk interface is that of adapter 1.
UsbOpenInputs ==
    {in \in [open : {NULL, 1}, claim : BOOLEAN, serial : SerialOutcomes,
             hid : {NULL, Crashed} \cup Units] :
        in.hid \in hid_open(kitprog_get_usb_serial(
                                [AllocatedHandle EXCEPT !.usb_handle = in.open],
                                in.serial).handle.serial)}

\* kitprog_usb_open() on the handle kitprog_init has just allocated.
kitprog_usb_open(in) ==
    LET h0 == AllocatedHandle
        open == LibCall("jtag_libusb_open", NULL, in.open)
        h1 == [h0 EXCEPT !.usb_handle = in.open]
        claim == LibCall("jtag_libusb_claim_interface", in.open,
                         IF in.claim THEN ERROR_OK ELSE ERROR_FAIL)
        s == kitprog_get_usb_serial(h1, in.serial)
        hid == LibCall("hid_open", s.handle.serial, in.hid)
        log == << open, claim >> \o s.log \o << hid >>
    IN  IF in.open = NULL
        THEN [handle |-> h0, log |-> << open >>, ret |-> ERROR_FAIL]
        ELSE IF ~in.claim
        THEN [handle |-> h1, log |-> << open, claim >>, ret |-> ERROR_FAIL]
        ELSE IF in.hid = Crashed
        THEN [handle |-> s.handle, log |-> log, ret |-> NotReturned]
        ELSE [handle |-> [s.handle EXCEPT !.hid_handle = in.hid],
              log |-> log,
              ret |-> IF in.hid = NULL THEN ERROR_FAIL ELSE ERROR_OK]

-----------------------------------------------------------------------------
(* kitprog_init, one action per call it makes *)

\* The state before kitprog_init runs: the static variables are zero.
KitprogStatics ==
    /\ packet_size = Uninit
    /\ pending_queue_len = 0
    /\ pending_transfers = << >>
    /\ pending_transfer_count = 0
    /\ queued_retval = ERROR_OK
    /\ enq = << >>
    /\ op = NoOp
    /\ pc = "usb_open"
    /\ init_ret = NotReturned
    /\ calls = << >>
    /\ cmd_ret = ERROR_OK
    /\ ncmds = 0
    /\ kitprog_handle = NULL
    /\ usb_log = << >>

InitCtl ==
    /\ KitprogStatics
    /\ NoFlashBank

\* return code from kitprog_init
InitReturn(code) ==
    /\ pc' = "returned"
    /\ init_ret' = code

\* Mutant of InitCall: the result of the call is not tested.
InitCall_KeepGoing(call, code, next) ==
    /\ calls' = Append(calls, call)
    /\ pc' = next
    /\ init_ret' = init_ret
    /\ UNCHANGED <<packet_size, pending_queue_len, flash_vars, queue_vars, cmd_ret, ncmds, usb_vars>>

\* if (call != ERROR_OK) return code; otherwise kitprog_init goes on at
\* position next.
InitCall(call, code, next) ==
    /\ calls' = Append(calls, call)
    /\ IF call.ret # ERROR_OK
       THEN InitReturn(code)
       ELSE pc' = next /\ init_ret' = init_ret
    /\ UNCHANGED <<packet_size, pending_queue_len, flash_vars, queue_vars, cmd_ret, ncmds, usb_vars>>

\* kitprog_handle = malloc(sizeof(struct kitprog)) and kitprog_usb_open().
\* A hid_open that does not return ends the program.
InitUsbOpen ==
    \E in \in UsbOpenInputs :
        LET r == kitprog_usb_open(in)
            call == [OtherCall("usb_open", TRUE) EXCEPT !.ret = r.ret]
        IN  /\ pc = "usb_open"
            /\ kitprog_handle' = r.handle
            /\ usb_log' = r.log
            /\ calls' = Append(calls, call)
            /\ IF r.ret = NotReturned
               THEN pc' = "crashed" /\ init_ret' = init_ret
               ELSE IF r.ret # ERROR_OK
               THEN InitReturn(ERROR_JTAG_INIT_FAILED)
               ELSE pc' = "get_version" /\ init_ret' = init_ret
            /\ UNCHANGED <<packet_size, pending_queue_len, flash_vars, queue_vars, cmd_ret, ncmds>>

InitGetVersion ==
    \E ok \in BOOLEAN :
        /\ pc = "get_version"
        /\ InitCall(OtherCall("get_version", ok), ERROR_FAIL, "get_millivolts")

InitGetMillivolts ==
    \E ok \in BOOLEAN :
        /\ pc = "get_millivolts"
        /\ InitCall(OtherCall("get_millivolts", ok), ERROR_FAIL, "set_unknown")

InitSetUnknown ==
    \E x \in Transfers :
        /\ pc = "set_unknown"
        /\ InitCall(kitprog_set_unknown(x), ERROR_FAIL, "set_protocol")

InitSetProtocol ==
    \E x \in Transfers :
        /\ pc = "set_protocol"
        /\ InitCall(kitprog_set_protocol(PROTOCOL_SWD, x), ERROR_FAIL, "swd_reset")

InitSwdReset ==
    \E x \in Transfers :
        /\ pc = "swd_reset"
        /\ InitCall(kitprog_swd_reset(x), ERROR_FAIL, "acquire_psoc4")

\* Mutant of StatusQuery: a successful query does not leave the loop.
StatusQuery_NoBreak(call, next) ==
    /\ calls' = Append(calls, call)
    /\ IF next = "returned"
       THEN InitReturn(ERROR_FAIL)
       ELSE pc' = next /\ init_ret' = init_ret
    /\ UNCHANGED <<packet_size, pending_queue_len, flash_vars, queue_vars, cmd_ret, ncmds, usb_vars>>

\* Mutant of StatusQuery: the first failed query ends kitprog_init.
StatusQuery_FailFast(call, next) ==
    /\ calls' = Append(calls, call)
    /\ IF call.ret = ERROR_OK
       THEN pc' = "alloc" /\ init_ret' = init_ret
       ELSE InitReturn(ERROR_FAIL)
    /\ UNCHANGED <<packet_size, pending_queue_len, flash_vars, queue_vars, cmd_ret, ncmds, usb_vars>>

\* if (kitprog_get_status() == ERROR_OK) break; otherwise kitprog_init goes
\* on at position next, or returns ERROR_FAIL when next is "returned"
\* (the else branch of the last query: "No PSoC devices found").
StatusQuery(call, next) ==
    /\ calls' = Append(calls, call)
    /\ IF call.ret = ERROR_OK
       THEN pc' = "alloc" /\ init_ret' = init_ret
       ELSE IF next = "returned"
       THEN InitReturn(ERROR_FAIL)
       ELSE pc' = next /\ init_ret' = init_ret
    /\ UNCHANGED <<packet_size, pending_queue_len, flash_vars, queue_vars, cmd_ret, ncmds, usb_vars>>

\* Here we try to acquire any device that will respond
InitAcquirePSoC4 ==
    \E x \in Transfers :
        /\ pc = "acquire_psoc4"
        /\ InitCall(kitprog_acquire_psoc(DEVICE_PSOC4, ACQUIRE_MODE_RESET, 3, x),
                    ERROR_FAIL, "status_psoc4")

InitStatusPSoC4 ==
    \E xs \in StatusAnswers :
        /\ pc = "status_psoc4"
        /\ StatusQuery(kitprog_get_status(xs), "acquire_unknown")

InitAcquireUnknown ==
    \E x \in Transfers :
        /\ pc = "acquire_unknown"
        /\ InitCall(kitprog_acquire_psoc(DEVICE_UNKNOWN, ACQUIRE_MODE_RESET, 3, x),
                    ERROR_FAIL, "status_unknown")

InitStatusUnknown ==
    \E xs \in StatusAnswers :
        /\ pc = "status_unknown"
        /\ StatusQuery(kitprog_get_status(xs), "acquire_psoc5")

InitAcquirePSoC5 ==
    \E x \in Transfers :
        /\ pc = "acquire_psoc5"
        /\ InitCall(kitprog_acquire_psoc(DEVICE_PSOC5, ACQUIRE_MODE_RESET, 3, x),
                    ERROR_FAIL, "status_psoc5")

InitStatusPSoC5 ==
    \E xs \in StatusAnswers :
        /\ pc = "status_psoc5"
        /\ StatusQuery(kitprog_get_status(xs), "returned")

\* Allocate packet buffers and queues.
InitAlloc ==
    \E ok \in BOOLEAN :
        /\ pc = "alloc"
        /\ calls' = Append(calls, OtherCall("malloc", ok))
        /\ packet_size' = SWD_MAX_BUFFER_LENGTH
        /\ pending_queue_len' = QueueLen(SWD_MAX_BUFFER_LENGTH)
        /\ IF ok
           THEN /\ pending_transfers' =
                       [i \in 0 .. QueueLen(SWD_MAX_BUFFER_LENGTH) - 1 |->
                           [cmd |-> Uninit,
                            data |-> Word(Uninit, Uninit, Uninit, Uninit),
                            buffer |-> Uninit]]
                /\ pc' = "ready"
                /\ init_ret' = ERROR_OK
           ELSE /\ pending_transfers' = pending_transfers
                /\ InitReturn(ERROR_FAIL)
        /\ UNCHANGED <<pending_transfer_count, queued_retval, enq, op, cmd_ret, ncmds, usb_vars, flash_vars>>

-----------------------------------------------------------------------------
(* Adapter commands after a successful kitprog_init *)

\* COMMAND_HANDLER(kitprog_handle_reset_target_command)
ResetTargetCommand ==
    \E x \in Transfers :
        LET call == kitprog_reset_target(x)
        IN  /\ pc = "ready"
            /\ ncmds < MaxCommands
            /\ ncmds' = ncmds + 1
            /\ calls' = << call >>
            /\ cmd_ret' = call.ret
            /\ UNCHANGED <<packet_size, pending_queue_len, flash_vars, queue_vars, pc, init_ret, usb_vars>>

\* kitprog_swd_switch_seq(seq): LINE_RESET runs kitprog_swd_reset, every
\* other sequence is not supported.
SwitchSeqs == {"LINE_RESET", "JTAG_TO_SWD", "SWD_TO_JTAG"}

SwitchSeq ==
    \E seq \in SwitchSeqs, x \in Transfers :
        LET call == kitprog_swd_reset(x)
        IN  /\ pc = "ready"
            /\ ncmds < MaxCommands
            /\ ncmds' = ncmds + 1
            /\ IF seq = "LINE_RESET"
               THEN /\ calls' = << call >>
                    /\ cmd_ret' = call.ret
               ELSE /\ calls' = << >>
                    /\ cmd_ret' = ERROR_FAIL
            /\ UNCHANGED <<packet_size, pending_queue_len, flash_vars, queue_vars, pc, init_ret, usb_vars>>

NextCtl ==
    \/ InitUsbOpen
    \/ InitGetVersion
    \/ InitGetMillivolts
    \/ InitSetUnknown
    \/ InitSetProtocol
    \/ InitSwdReset
    \/ InitAcquirePSoC4
    \/ InitStatusPSoC4
    \/ InitAcquireUnknown
    \/ InitStatusUnknown
    \/ InitAcquirePSoC5
    \/ InitStatusPSoC5
    \/ InitAlloc
    \/ ResetTargetCommand
    \/ SwitchSeq

SpecCtl == InitCtl /\ [][NextCtl]_vars


-----------------------------------------------------------------------------
(* Properties of the transaction queue (specification Spec).               *)
(* They are stated over op, the record of the last operation: op.batch is  *)
(* the sequence of accesses the callers enqueued, in call order, that was  *)
(* pending when the operation began; op.bulk the bulk transfers and        *)
(* op.stores the stores into callers' words the operation made.            *)

IsEnqueue == op.name \in {"read_reg", "write_reg"}

\* Number of bytes the accesses b[1 .. i-1] take on the wire: one header
\* byte each, and four data bytes for a write.
RECURSIVE WireBytesBefore(_, _)
WireBytesBefore(b, i) ==
    IF i <= 1 THEN 0
    ELSE WireBytesBefore(b, i - 1) + (IF b[i - 1].read THEN 1 ELSE 5)

\* Number of response bytes of the accesses b[1 .. i-1]: one ack byte each,
\* and four data bytes for a read.
RECURSIVE ResponseBytesBefore(_, _)
ResponseBytesBefore(b, i) ==
    IF i <= 1 THEN 0
    ELSE ResponseBytesBefore(b, i - 1) + (IF b[i - 1].read THEN 5 ELSE 1)

\* The wire bytes w carry the accesses of b in call order: the i-th access
\* is the i-th header, a write followed by its data, low byte first.
WireInOrder(b, w) ==
    /\ Len(w) = WireBytesBefore(b, Len(b) + 1)
    /\ \A i \in 1 .. Len(b) :
           LET p == WireBytesBefore(b, i)
           IN  /\ w[p + 1] = Header(b[i].cmd)
               /\ ~b[i].read =>
                      << w[p + 5], w[p + 4], w[p + 3], w[p + 2] >> = b[i].data

\* Number of leading response bytes skipped when ret bytes came back for b.
SkippedBytes(b, ret) ==
    LET expected == ResponseBytesBefore(b, Len(b) + 1)
    IN  IF ret > expected THEN ret - expected ELSE 0

\* The accesses of b[1 .. n] that deliver a result (reads with an output
\* word), in call order, each with the response position it is the owner of.
RECURSIVE Deliveries(_, _, _)
Deliveries(b, n, g) ==
    IF n = 0 THEN << >>
    ELSE Deliveries(b, n - 1, g) \o
         (IF b[n].read /\ b[n].dst # NULL
          THEN << [entry |-> n - 1, slot |-> b[n].dst,
                   index |-> g + ResponseBytesBefore(b, n)] >>
          ELSE << >>)

\* The stores st were made in the call order of b, each from the response
\* position of its access, when ret response bytes came back.
DecodedInOrder(b, ret, st) ==
    LET want == Deliveries(b, Len(b), SkippedBytes(b, ret))
    IN  /\ Len(st) = Len(want)
        /\ \A k \in 1 .. Len(want) :
               /\ st[k].entry = want[k].entry
               /\ st[k].slot = want[k].slot
               /\ st[k].index = want[k].index

\* The last operation ran a flush whose two bulk transfers both succeeded.
FlushDecoded == op.flushes = 1 /\ Len(op.bulk) = 2 /\ op.ret = ERROR_OK

\* C1: a flush (explicit or implicit) of the pending accesses sends them in
\* enqueue order - the i-th enqueued access is the i-th serialized header -
\* and, when both transfers succeed, decodes their results in the same
\* order, the i-th access from the i-th response position.
C1_FlushKeepsEnqueueOrder ==
    op.flushes = 1 =>
        /\ Len(op.batch) = op.pre_count
        /\ (op.pre_qret = ERROR_OK /\ Len(op.batch) > 0) => Len(op.bulk) >= 1
        /\ Len(op.bulk) >= 1 => WireInOrder(op.batch, op.bulk[1].data)
        /\ FlushDecoded => DecodedInOrder(op.batch, op.bulk[2].ret, op.stores)

\* A flush of a full batch - a write, then a read with an output word -
\* that decoded its response.
C1_Witness ==
    /\ op.name = "run"
    /\ FlushDecoded
    /\ Len(op.batch) = pending_queue_len
    /\ ~op.batch[1].read
    /\ op.batch[2].read /\ op.batch[2].dst # NULL
    /\ Len(op.stores) = 1

\* C2: an enqueue that finds the queue at capacity runs exactly one flush,
\* of the pending accesses only, before the new access is stored (and an
\* enqueue below capacity runs none); when that flush succeeds the new
\* access is the only queued entry, and the flushed batch was sent and
\* decoded in enqueue order as by an explicit flush.
C2_ImplicitFlushAtCapacity ==
    IsEnqueue =>
        /\ op.flushes = (IF op.pre_count = pending_queue_len THEN 1 ELSE 0)
        /\ op.flushes = 1 =>
               /\ Len(op.batch) = pending_queue_len
               /\ Len(op.bulk) >= 1
               /\ WireInOrder(op.batch, op.bulk[1].data)
               /\ op.ret = ERROR_OK =>
                      /\ Len(op.bulk) = 2
                      /\ DecodedInOrder(op.batch, op.bulk[2].ret, op.stores)
                      /\ op.stored
                      /\ pending_transfer_count = 1
                      /\ Len(enq) = 1
                      /\ enq[1].cmd = op.cmd /\ enq[1].dst = op.dst
                      /\ enq[1].data = op.data
                      /\ pending_transfers[0].cmd = op.cmd
                      /\ pending_transfers[0].data = op.data
                      /\ IsRead(op.cmd) => pending_transfers[0].buffer = op.dst

\* An enqueue at capacity whose implicit flush succeeded and delivered the
\* results of two reads.
C2_Witness ==
    /\ IsEnqueue
    /\ op.pre_count = pending_queue_len
    /\ op.ret = ERROR_OK
    /\ Len(op.stores) = 2
    /\ pending_transfer_count = 1

\* C3: the number of pending transactions is always between 0 and the
\* capacity, which is the packet size divided by 5 (102 for the driver's
\* 512-byte packet), whatever enqueues and flushes, failing ones included,
\* have run.
C3_CountWithinCapacity ==
    /\ pending_transfer_count \in 0 .. pending_queue_len
    /\ pending_queue_len = packet_size \div 5
    /\ QueueLen(SWD_MAX_BUFFER_LENGTH) = 102

\* The queue holds as many entries as its capacity: the last enqueue stored
\* the entry that filled it.
C3_Witness ==
    /\ pending_transfer_count = pending_queue_len
    /\ IsEnqueue /\ op.stored
    /\ op.pre_count = pending_queue_len - 1

\* C4: in every flush that decodes a response, each pending access that has
\* an output word gets exactly one store, into that word, the stores follow
\* the request order, and an access without an output word (a write, or a
\* read queued with no destination) causes no store.  No operation stores
\* more than once for one access.
C4_SlotWrittenOncePerFlush ==
    /\ \A i \in 1 .. Len(op.batch) :
           LET mine == {k \in 1 .. Len(op.stores) : op.stores[k].entry = i - 1}
               has_slot == op.batch[i].read /\ op.batch[i].dst # NULL
           IN  /\ Cardinality(mine) <= 1
               /\ \A k \in mine : has_slot /\ op.stores[k].slot = op.batch[i].dst
               /\ FlushDecoded => Cardinality(mine) = (IF has_slot THEN 1 ELSE 0)
    /\ \A k \in 1 .. Len(op.stores) :
           /\ op.stores[k].entry \in 0 .. Len(op.batch) - 1
           /\ \A l \in 1 .. Len(op.stores) :
                  k < l => op.stores[k].entry < op.stores[l].entry

\* A flush of a read into word 2 followed by a write whose queue entry
\* still holds the destination of an older read: one store, into word 2.
C4_Witness ==
    /\ FlushDecoded
    /\ Len(op.batch) = 2
    /\ op.batch[1].read /\ op.batch[1].dst = 2
    /\ ~op.batch[2].read
    /\ pending_transfers[1].buffer \in Slots
    /\ Len(op.stores) = 1

\* C5: a flush that finds the sticky error set returns that error, issues
\* no bulk transfer and stores nothing.
C5_StickyErrorSkipsFlush ==
    (op.flushes = 1 /\ op.pre_qret # ERROR_OK) =>
        /\ op.ret = op.pre_qret
        /\ op.bulk = << >>
        /\ op.stores = << >>

\* An explicit flush that ran while the sticky error was set.
C5_Witness ==
    /\ op.name = "run"
    /\ op.pre_qret = ERROR_FAIL
    /\ op.ret = ERROR_FAIL

\* C6: when the implicit flush of an enqueue at capacity fails, the new
\* access is not stored and the error is left set; while the error is set
\* every enqueue is dropped, runs no flush and transmits nothing; and only
\* a flush run by the caller clears the error.
C6_FailedImplicitFlushIsSticky ==
    /\ (IsEnqueue /\ op.flushes = 1 /\ op.ret # ERROR_OK) =>
           /\ ~op.stored
           /\ queued_retval = op.ret
           /\ pending_transfer_count = 0
           /\ enq = << >>
    /\ (IsEnqueue /\ op.pre_qret # ERROR_OK) =>
           /\ ~op.stored
           /\ op.flushes = 0
           /\ op.bulk = << >>
           /\ queued_retval = op.pre_qret
           /\ pending_transfer_count = op.pre_count
    /\ (op.pre_qret # ERROR_OK /\ queued_retval = ERROR_OK) => op.name = "run"
    /\ queued_retval # ERROR_OK => IsEnqueue

\* An enqueue dropped because an earlier implicit flush had failed.
C6_Witness ==
    /\ IsEnqueue
    /\ op.pre_qret = ERROR_FAIL
    /\ ~op.stored
    /\ queued_retval = ERROR_FAIL


-----------------------------------------------------------------------------
(* Properties of kitprog_init and the control commands (specification      *)
(* SpecCtl).  While ncmds = 0, calls lists the calls kitprog_init has made *)
(* so far, in order, each with the transfers it issued and its result.     *)

DuringInit == ncmds = 0

IsAcquire(c) == c.fn = "acquire_psoc"
IsStatus(c) == c.fn = "get_status"

\* The acquire commands issued so far, in order.
AcquireCalls == SelectSeq(calls, IsAcquire)

\* The status queries made so far, in order.
StatusCalls == SelectSeq(calls, IsStatus)

AcquirePositions == {"acquire_psoc4", "acquire_unknown", "acquire_psoc5"}
StatusPositions == {"status_psoc4", "status_unknown", "status_psoc5"}

\* The index field of an acquire command for a device type: 3 attempts in
\* bits 8 and up, reset mode (0) in bits 4 to 7, the type in bits 0 to 3.
AcquireIndex(type) == 3 * 256 + 0 * 16 + type

LoopCalls == SelectSeq(calls, LAMBDA c : IsAcquire(c) \/ IsStatus(c))
LoopLeft == DuringInit /\ Len(LoopCalls) > 0 /\ pc \in {"alloc", "ready", "returned"}
LastLoopCall == LoopCalls[Len(LoopCalls)]

\* The two outcomes of the acquire loop.
Acquired == IsStatus(LastLoopCall) /\ LastLoopCall.ret = ERROR_OK
AcquireFailed ==
    /\ LastLoopCall.ret # ERROR_OK
    /\ calls[Len(calls)] = LastLoopCall
    /\ pc = "returned"
    /\ init_ret = ERROR_FAIL

\* C8 as claimed: the acquire loop ends 'acquired' or 'failed', and 'failed'
\* only after all three device types were tried - a rejected attempt for an
\* earlier type does not end the acquisition.
C8_FailedOnlyAfterAllTypes ==
    LoopLeft =>
        /\ Acquired # AcquireFailed
        /\ AcquireFailed => Len(AcquireCalls) = 3

\* C8 as amended: the acquire loop ends 'acquired' (a status query returned
\* ERROR_OK) or 'failed'; 'failed' is reached either at once when an acquire
\* command itself is rejected, whatever types are left, or when the status
\* query of the third type failed; a failed status query of an earlier type
\* does not end the acquisition.
C8_AcquireOutcomes ==
    /\ LoopLeft =>
           /\ Acquired # AcquireFailed
           /\ AcquireFailed =>
                  \/ IsAcquire(LastLoopCall)
                  \/ IsStatus(LastLoopCall) /\ Len(AcquireCalls) = 3
    /\ (DuringInit /\ Len(LoopCalls) > 0 /\ IsStatus(LastLoopCall)
            /\ LastLoopCall.ret # ERROR_OK /\ Len(AcquireCalls) < 3) =>
           pc \in AcquirePositions

\* The acquire command of the second type was rejected after the status
\* query of the first had failed: kitprog_init returned with the third type
\* untried.
C8_Witness ==
    /\ LoopLeft
    /\ AcquireFailed
    /\ Len(AcquireCalls) = 2
    /\ IsAcquire(LastLoopCall)
    /\ Len(StatusCalls) = 1

ControlFns == {"set_protocol", "set_unknown", "acquire_psoc", "reset_target",
               "swd_reset", "get_status"}

\* C9: a control command returns ERROR_OK exactly when its (last) transfer
\* moved at least one byte and the status byte the adapter returned is 0x01;
\* with zero bytes moved, a negative count or any other status byte it
\* returns ERROR_FAIL.
C9_ControlCommandResult ==
    \A p \in 1 .. Len(calls) :
        calls[p].fn \in ControlFns =>
            LET c == calls[p]
                x == c.xfers[Len(c.xfers)]
            IN  /\ Len(c.xfers) >= 1
                /\ c.ret \in {ERROR_OK, ERROR_FAIL}
                /\ c.ret = ERROR_OK <=> (x.n >= 1 /\ x.st = 1)

\* set_unknown, set_protocol and swd_reset were acknowledged and the
\* acquire command was answered with a negative count.
C9_Witness ==
    /\ DuringInit
    /\ Len(calls) = 7
    /\ calls[4].fn = "set_unknown" /\ calls[4].ret = ERROR_OK
    /\ calls[5].fn = "set_protocol" /\ calls[5].ret = ERROR_OK
    /\ calls[6].fn = "swd_reset" /\ calls[6].ret = ERROR_OK
    /\ calls[7].fn = "acquire_psoc" /\ calls[7].xfers[1].n < 0
    /\ calls[7].ret = ERROR_FAIL

\* C10: kitprog_get_status issues between one and three transfers, a further
\* one only after a transfer that moved zero bytes and always after such a
\* transfer unless it was the third; it fails when all three moved zero
\* bytes and otherwise succeeds exactly when the status byte is 0x01.
C10_StatusRetries ==
    \A p \in 1 .. Len(calls) :
        IsStatus(calls[p]) =>
            LET c == calls[p]
                m == Len(c.xfers)
                status == IF c.xfers[m].n > 0 THEN c.xfers[m].st ELSE 0
            IN  /\ m \in 1 .. 3
                /\ \A i \in 1 .. m - 1 : c.xfers[i].n = 0
                /\ m < 3 => c.xfers[m].n # 0
                /\ c.xfers[m].n = 0 => c.ret = ERROR_FAIL
                /\ c.xfers[m].n # 0 => (c.ret = ERROR_OK <=> status = 1)

\* A status query whose first two transfers moved nothing and whose third
\* was acknowledged.
C10_Witness ==
    \E p \in 1 .. Len(calls) :
        /\ IsStatus(calls[p])
        /\ Len(calls[p].xfers) = 3
        /\ calls[p].xfers[3].n = 1
        /\ calls[p].xfers[3].st = 1
        /\ calls[p].ret = ERROR_OK

-----------------------------------------------------------------------------
(***************************************************************************)
(* The PSoC 5LP flash driver (src/src/flash/nor/psoc5.c): device           *)
(* identification, probe and auto_probe, the SPC command codec and the     *)
(* mass erase.                                                             *)
(*                                                                         *)
(*   SpecFlash - the operations of one configured flash bank;              *)
(*   SpecSpc   - psoc5_spc_command applied to commands with arguments.     *)
(***************************************************************************)

\* Number of status polls of one mass erase that the model follows.
MaxPolls == 2

\* Largest number of argument bytes of an SPC command in the model.
MaxArgs == 2

\* register locations
PSOC5_SPC_CPU_DATA == 1073759008
PSOC5_SPC_STATUS == 1073759010
PSOC5_DEVICE_ID == 1074266140

PSOC5_SPC_KEY1 == 182
PSOC5_SPC_KEY2 == 211
PSOC5_SPC_IDLE == 2

PSOC5_CMD_LOAD_ROW == 2
PSOC5_CMD_PROGRAM_ROW == 7
PSOC5_CMD_ERASE_ALL == 9

ERROR_TARGET_NOT_HALTED == -304

TARGET_RUNNING == "TARGET_RUNNING"
TARGET_HALTED == "TARGET_HALTED"

\* const struct psoc5_chip_details psoc5_devices[]
psoc5_devices == <<
    [id |-> 772804713, type |-> "CY8C5666AXI-LP001", package |-> "TQFP-100", flash_size_in_kb |-> 64],
    [id |-> 772808809, type |-> "CY8C5466AXI-LP002", package |-> "TQFP-100", flash_size_in_kb |-> 64],
    [id |-> 772812905, type |-> "CY8C5467LTI-LP003", package |-> "QFN-68", flash_size_in_kb |-> 128],
    [id |-> 772817001, type |-> "CY8C5666AXI-LP004", package |-> "TQFP-100", flash_size_in_kb |-> 64],
    [id |-> 772821097, type |-> "CY8C5666LTI-LP005", package |-> "QFN-68", flash_size_in_kb |-> 64],
    [id |-> 772825193, type |-> "CY8C5667AXI-LP006", package |-> "TQFP-100", flash_size_in_kb |-> 128],
    [id |-> 772829289, type |-> "CY8C5687LTI-LP007", package |-> "QFN-68", flash_size_in_kb |-> 256],
    [id |-> 772833385, type |-> "CY8C5667LTI-LP008", package |-> "QFN-68", flash_size_in_kb |-> 128],
    [id |-> 772837481, type |-> "CY8C5667LTI-LP009", package |-> "QFN-68", flash_size_in_kb |-> 128],
    [id |-> 772841577, type |-> "CY8C5668AXI-LP010", package |-> "TQFP-100", flash_size_in_kb |-> 256],
    [id |-> 772845673, type |-> "CY8C5687AXI-LP011", package |-> "TQFP-100", flash_size_in_kb |-> 256],
    [id |-> 772849769, type |-> "CY8C5687LTI-LP012", package |-> "QFN-68", flash_size_in_kb |-> 256],
    [id |-> 772853865, type |-> "CY8C5668AXI-LP013", package |-> "TQFP-100", flash_size_in_kb |-> 256],
    [id |-> 772857961, type |-> "CY8C5668LTI-LP014", package |-> "QFN-68", flash_size_in_kb |-> 256],
    [id |-> 772862057, type |-> "CY8C5688AXI-LP015", package |-> "TQFP-100", flash_size_in_kb |-> 256],
    [id |-> 772866153, type |-> "CY8C5688AXI-LP016", package |-> "TQFP-100", flash_size_in_kb |-> 256],
    [id |-> 772870249, type |-> "CY8C5688AXI-LP017", package |-> "TQFP-100", flash_size_in_kb |-> 256],
    [id |-> 772874345, type |-> "CY8C5887AXI-LP018", package |-> "TQFP-100", flash_size_in_kb |-> 256],
    [id |-> 772878441, type |-> "CY8C5887AXI-LP019", package |-> "TQFP-100", flash_size_in_kb |-> 256],
    [id |-> 772882537, type |-> "CY8C5866AXI-LP020", package |-> "TQFP-100", flash_size_in_kb |-> 64],
    [id |-> 772886633, type |-> "CY8C5866AXI-LP021", package |-> "TQFP-100", flash_size_in_kb |-> 64],
    [id |-> 772890729, type |-> "CY8C5866LTI-LP022", package |-> "QFN-68", flash_size_in_kb |-> 64],
    [id |-> 772894825, type |-> "CY8C5867AXI-LP023", package |-> "TQFP-100", flash_size_in_kb |-> 128],
    [id |-> 772898921, type |-> "CY8C5867AXI-LP024", package |-> "TQFP-100", flash_size_in_kb |-> 128],
    [id |-> 772903017, type |-> "CY8C5867LTI-LP025", package |-> "QFN-68", flash_size_in_kb |-> 128],
    [id |-> 772907113, type |-> "CY8C5468LTI-LP026", package |-> "QFN-68", flash_size_in_kb |-> 256],
    [id |-> 772911209, type |-> "CY8C5686LTI-LP027", package |-> "QFN-68", flash_size_in_kb |-> 256],
    [id |-> 772915305, type |-> "CY8C5867LTI-LP028", package |-> "QFN-68", flash_size_in_kb |-> 128],
    [id |-> 772919401, type |-> "CY8C5266LTI-LP029", package |-> "QFN-68", flash_size_in_kb |-> 64],
    [id |-> 772923497, type |-> "CY8C5268LTI-LP030", package |-> "QFN-68", flash_size_in_kb |-> 256],
    [id |-> 772927593, type |-> "CY8C5868AXI-LP031", package |-> "TQFP-100", flash_size_in_kb |-> 256],
    [id |-> 772931689, type |-> "CY8C5868AXI-LP032", package |-> "TQFP-100", flash_size_in_kb |-> 256],
    [id |-> 772935785, type |-> "CY8C5266AXI-LP033", package |-> "TQFP-100", flash_size_in_kb |-> 64],
    [id |-> 772939881, type |-> "CY8C5668AXI-LP034", package |-> "TQFP-100", flash_size_in_kb |-> 256],
    [id |-> 772943977, type |-> "CY8C5868AXI-LP035", package |-> "TQFP-100", flash_size_in_kb |-> 256],
    [id |-> 772948073, type |-> "CY8C5868LTI-LP036", package |-> "QFN-68", flash_size_in_kb |-> 256],
    [id |-> 772952169, type |-> "CY8C5688LTI-LP037", package |-> "QFN-68", flash_size_in_kb |-> 256],
    [id |-> 772956265, type |-> "CY8C5868LTI-LP038", package |-> "QFN-68", flash_size_in_kb |-> 256],
    [id |-> 772960361, type |-> "CY8C5868LTI-LP039", package |-> "QFN-68", flash_size_in_kb |-> 256],
    [id |-> 772964457, type |-> "CY8C5667AXI-LP040", package |-> "TQFP-100", flash_size_in_kb |-> 128],
    [id |-> 772968553, type |-> "CY8C5667LTI-LP041", package |-> "QFN-68", flash_size_in_kb |-> 128],
    [id |-> 772972649, type |-> "CY8C5468AXI-LP042", package |-> "TQFP-100", flash_size_in_kb |-> 256],
    [id |-> 772976745, type |-> "CY8C5465AXI-LP043", package |-> "TQFP-100", flash_size_in_kb |-> 32],
    [id |-> 772980841, type |-> "CY8C5488AXI-LP044", package |-> "TQFP-100", flash_size_in_kb |-> 256],
    [id |-> 772993129, type |-> "CY8C5268AXI-LP047", package |-> "TQFP-100", flash_size_in_kb |-> 256],
    [id |-> 773005417, type |-> "CY8C5265LTI-LP050", package |-> "QFN-68", flash_size_in_kb |-> 32],
    [id |-> 773009513, type |-> "CY8C5267AXI-LP051", package |-> "TQFP-100", flash_size_in_kb |-> 128],
    [id |-> 773013609, type |-> "CY8C5688LTI-LP052", package |-> "QFN-68", flash_size_in_kb |-> 256],
    [id |-> 773025897, type |-> "CY8C5288LTI-LP055", package |-> "QFN-68", flash_size_in_kb |-> 256],
    [id |-> 773029993, type |-> "CY8C5265AXI-LP056", package |-> "TQFP-100", flash_size_in_kb |-> 32],
    [id |-> 773034089, type |-> "CY8C5888AXI-LP057", package |-> "TQFP-100", flash_size_in_kb |-> 256],
    [id |-> 773038185, type |-> "CY8C5265LTI-LP058", package |-> "QFN-68", flash_size_in_kb |-> 32],
    [id |-> 773042281, type |-> "CY8C5888AXI-LP059", package |-> "TQFP-100", flash_size_in_kb |-> 256],
    [id |-> 773046377, type |-> "CY8C5888AXI-LP060", package |-> "TQFP-100", flash_size_in_kb |-> 256],
    [id |-> 773050473, type |-> "CY8C5888AXI-LP061", package |-> "TQFP-100", flash_size_in_kb |-> 256],
    [id |-> 773054569, type |-> "CY8C5886AXI-LP062", package |-> "TQFP-100", flash_size_in_kb |-> 256],
    [id |-> 773058665, type |-> "CY8C5686AXI-LP063", package |-> "TQFP-100", flash_size_in_kb |-> 256],
    [id |-> 773062761, type |-> "CY8C5686AXI-LP064", package |-> "TQFP-100", flash_size_in_kb |-> 256],
    [id |-> 773066857, type |-> "CY8C5886AXI-LP065", package |-> "TQFP-100", flash_size_in_kb |-> 256],
    [id |-> 773091433, type |-> "CY8C5488LTI-LP071", package |-> "QFN-68", flash_size_in_kb |-> 256],
    [id |-> 773095529, type |-> "CY8C5466LTI-LP072", package |-> "QFN-68", flash_size_in_kb |-> 64],
    [id |-> 773099625, type |-> "CY8C5288AXI-LP073", package |-> "TQFP-100", flash_size_in_kb |-> 256],
    [id |-> 773120105, type |-> "CY8C5887LTI-LP078", package |-> "QFN-68", flash_size_in_kb |-> 256],
    [id |-> 773124201, type |-> "CY8C5887LTI-LP079", package |-> "QFN-68", flash_size_in_kb |-> 256],
    [id |-> 773136489, type |-> "CY8C5265AXI-LP082", package |-> "TQFP-100", flash_size_in_kb |-> 32],
    [id |-> 773148777, type |-> "CY8C5466LTI-LP085", package |-> "QFN-68", flash_size_in_kb |-> 64],
    [id |-> 773152873, type |-> "CY8C5688LTI-LP086", package |-> "QFN-68", flash_size_in_kb |-> 256],
    [id |-> 773165161, type |-> "CY8C5267LTI-LP089", package |-> "QFN-68", flash_size_in_kb |-> 128],
    [id |-> 773169257, type |-> "CY8C5288LTI-LP090", package |-> "QFN-68", flash_size_in_kb |-> 256],
    [id |-> 773181545, type |-> "CY8C5488LTI-LP093", package |-> "QFN-68", flash_size_in_kb |-> 256],
    [id |-> 773189737, type |-> "CY8C5287AXI-LP095", package |-> "TQFP-100", flash_size_in_kb |-> 256],
    [id |-> 773193833, type |-> "CY8C5888AXI-LP096", package |-> "TQFP-100", flash_size_in_kb |-> 256],
    [id |-> 773197929, type |-> "CY8C5888LTI-LP097", package |-> "QFN-68", flash_size_in_kb |-> 256],
    [id |-> 773206121, type |-> "CY8C5688AXI-LP099", package |-> "TQFP-100", flash_size_in_kb |-> 256],
    [id |-> 773226601, type |-> "CY8C5465LTI-LP104", package |-> "QFN-68", flash_size_in_kb |-> 32],
    [id |-> 773234793, type |-> "CY8C5468AXI-LP106", package |-> "TQFP-100", flash_size_in_kb |-> 256],
    [id |-> 773238889, type |-> "CY8C5466AXI-LP107", package |-> "TQFP-100", flash_size_in_kb |-> 64],
    [id |-> 773242985, type |-> "CY8C5467AXI-LP108", package |-> "TQFP-100", flash_size_in_kb |-> 128],
    [id |-> 773263465, type |-> "CY8C5888LTI-LP113", package |-> "QFN-68", flash_size_in_kb |-> 256],
    [id |-> 773267561, type |-> "CY8C5888LTI-LP114", package |-> "QFN-68", flash_size_in_kb |-> 256],
    [id |-> 773271657, type |-> "CY8C5888LTI-LP115", package |-> "QFN-68", flash_size_in_kb |-> 256],
    [id |-> 773292137, type |-> "CY8C5488AXI-LP120", package |-> "TQFP-100", flash_size_in_kb |-> 256],
    [id |-> 773341289, type |-> "CY8C5266AXI-LP132", package |-> "TQFP-100", flash_size_in_kb |-> 64],
    [id |-> 773415017, type |-> "CY8C5266LTI-LP150", package |-> "QFN-68", flash_size_in_kb |-> 64],
    [id |-> 773660777, type |-> "CY8C5888FNI-LP210", package |-> "WLCSP-99", flash_size_in_kb |-> 256],
    [id |-> 773664873, type |-> "CY8C5688FNI-LP211", package |-> "WLCSP-99", flash_size_in_kb |-> 256],
    [id |-> 773668969, type |-> "CY8C5488FNI-LP212", package |-> "WLCSP-99", flash_size_in_kb |-> 256],
    [id |-> 773673065, type |-> "CY8C5288FNI-LP213", package |-> "WLCSP-99", flash_size_in_kb |-> 256],
    [id |-> 773677161, type |-> "CY8C5888FNI-LP214", package |-> "WLCSP-99", flash_size_in_kb |-> 256]
>>

\* Conversion of an int to the uint8_t parameter of target_write_u8.
U8(x) == x % 256

\* sizeof(psoc5_devices)/sizeof(psoc5_devices[0]), one entry too few
DeviceCount_OneShort == Len(psoc5_devices) - 1

\* sizeof(psoc5_devices)/sizeof(psoc5_devices[0])
DeviceCount == Len(psoc5_devices)

\* for (i = 0; i < count; i++, p++) if (p->id == silicon_id) return p;
\* return NULL;  A pointer into the table is the position of its entry,
\* counted from 1.
RECURSIVE ScanDevices(_, _)
ScanDevices(i, silicon_id) ==
    IF ~(i < DeviceCount)
    THEN NULL
    ELSE IF psoc5_devices[i + 1].id = silicon_id
         THEN i + 1
         ELSE ScanDevices(i + 1, silicon_id)

psoc5_details_by_id(silicon_id) == ScanDevices(0, silicon_id)

\* One access to a target register, as the flash driver issues it.
Access(kind, address, value, ret) ==
    [kind |-> kind, address |-> address, value |-> value, ret |-> ret]

\* target_write_u8(target, address, value)
target_write_u8(address, value, ret) ==
    Access("write_u8", address, U8(value), ret)

\* The bytes psoc5_spc_command writes when no write fails.
SpcBytes(cmd, args) ==
    <<PSOC5_SPC_KEY1, PSOC5_SPC_KEY2 + cmd, cmd>> \o args

\* The writes of psoc5_spc_command when a failed write does not end the
\* sequence.
RECURSIVE SpcWrites_NoBreak(_, _, _)
SpcWrites_NoBreak(bytes, rets, i) ==
    IF i > Len(bytes)
    THEN << >>
    ELSE << target_write_u8(PSOC5_SPC_CPU_DATA, bytes[i], rets[i]) >>
             \o SpcWrites_NoBreak(bytes, rets, i + 1)

\* retval = target_write_u8(...); if (retval != ERROR_OK) break;
\* for each byte in turn, the argument bytes in the for loop.
RECURSIVE SpcWrites(_, _, _)
SpcWrites(bytes, rets, i) ==
    IF i > Len(bytes)
    THEN << >>
    ELSE LET w == target_write_u8(PSOC5_SPC_CPU_DATA, bytes[i], rets[i])
         IN  IF w.ret # ERROR_OK
             THEN << w >>
             ELSE << w >> \o SpcWrites(bytes, rets, i + 1)

\* psoc5_spc_command(target, cmd, args, num_args); rets[i] is what the
\* target answers to the i-th write if it is issued.
psoc5_spc_command(cmd, args, rets) ==
    LET ws == SpcWrites(SpcBytes(cmd, args), rets, 1)
    IN  [accesses |-> ws, ret |-> ws[Len(ws)].ret]

-----------------------------------------------------------------------------
(* probe and auto_probe *)

\* What the flash driver records about one operation.
FlashOp(name) ==
    [name |-> name, ret |-> NotReturned, handler_ret |-> NotReturned,
     printed |-> "", cmd |-> 0, args |-> << >>, accesses |-> << >>,
     looked_up |-> FALSE, details |-> NULL, mismatch |-> FALSE,
     heap |-> << >>, failed_assert |-> "", status |-> Uninit,
     pre_state |-> target_state, pre_probed |-> psoc5_info.probed,
     pre_probed_once |-> probed_once,
     pre_sectors |-> bank.num_sectors,
     pre_erased |-> bank.num_sectors > 0 /\ bank.sectors[1].is_erased = 1,
     bank_kept |-> TRUE, info_kept |-> TRUE, unlogged |-> 0]

\* if (details) { if (flash_size_in_kb == 0) flash_size_in_kb =
\* details->flash_size_in_kb; else if (...) LOG_ERROR("Flash size mismatch"); }
FlashSizeAfterLookup(flash_size_in_kb, details) ==
    IF details # NULL /\ flash_size_in_kb = 0
    THEN psoc5_devices[details].flash_size_in_kb
    ELSE flash_size_in_kb

FlashSizeMismatch(flash_size_in_kb, details) ==
    /\ details # NULL
    /\ flash_size_in_kb # 0
    /\ flash_size_in_kb # psoc5_devices[details].flash_size_in_kb

\* if (retval != ERROR_OK || flash_size_in_kb == 0xffff ||
\*     flash_size_in_kb == 0) flash_size_in_kb = max_flash_size_in_kb;
FlashSizeDefaulted(retval, flash_size_in_kb, max_flash_size_in_kb) ==
    IF retval # ERROR_OK \/ flash_size_in_kb = 65535 \/ flash_size_in_kb = 0
    THEN max_flash_size_in_kb
    ELSE flash_size_in_kb

\* if (psoc5_info->user_bank_size) flash_size_in_kb =
\*     psoc5_info->user_bank_size / 1024;
FlashSizeConfigured(user_bank_size, flash_size_in_kb) ==
    IF user_bank_size # 0
    THEN user_bank_size \div 1024
    ELSE flash_size_in_kb

\* Mutant of Sectors: the offsets are counted from the second row.
Sectors_FromSecondRow(num_rows, row_size) ==
    [i \in 1 .. num_rows |->
        [offset |-> i * row_size, size |-> row_size,
         is_erased |-> -1, is_protected |-> 1]]

\* The sector table probe builds: sectors[i] for i = 0 .. num_rows - 1 is
\* element i + 1.
Sectors(num_rows, row_size) ==
    [i \in 1 .. num_rows |->
        [offset |-> (i - 1) * row_size, size |-> row_size,
         is_erased |-> -1, is_protected |-> 1]]

\* What probe leaves behind when it finds the target not halted, had the
\* check been made after the register reads.
ProbeNotHalted_AfterReads(none, info1, reads) ==
    [none EXCEPT !.info = info1, !.accesses = reads,
                 !.ret = ERROR_TARGET_NOT_HALTED]

\* if (target->state != TARGET_HALTED) return ERROR_TARGET_NOT_HALTED;
\* the first statement of psoc5_probe.
ProbeNotHalted(none, info1, reads) ==
    [none EXCEPT !.ret = ERROR_TARGET_NOT_HALTED]

\* psoc5_probe(bank).  dummy_ret and id_ret are the results of the two
\* register reads, id the value of the device ID register and
\* max_flash_size_in_kb the content of the local variable that is never
\* assigned.  flash_size_in_kb * 1024 stays below 2^32 because
\* flash_size_in_kb is at most 2^32 / 1024 - 1.  A failed assert ends the
\* program (aborted).
psoc5_probe(b, info, ts, dummy_ret, id_ret, id, max_flash_size_in_kb) ==
    LET row_size == 256
        base_address == 0
        none == [bank |-> b, info |-> info, ret |-> NotReturned,
                 accesses |-> << >>, looked_up |-> FALSE, details |-> NULL,
                 mismatch |-> FALSE, heap |-> << >>, failed_assert |-> ""]
        info1 == [info EXCEPT !.probed = 0,
                              !.cmd_program_row = PSOC5_CMD_PROGRAM_ROW]
        reads == << Access("read_u32", PSOC5_SPC_CPU_DATA, 0, dummy_ret),
                    Access("read_u32", PSOC5_DEVICE_ID, id, id_ret) >>
        details == psoc5_details_by_id(id)
        kb1 == FlashSizeAfterLookup(256, details)
        info2 == [info1 EXCEPT !.row_size = row_size, !.silicon_id = id]
        kb2 == FlashSizeDefaulted(id_ret, kb1, max_flash_size_in_kb)
        kb3 == FlashSizeConfigured(info.user_bank_size, kb2)
        num_rows == (kb3 * 1024) \div row_size
        looked == [none EXCEPT !.info = info2, !.accesses = reads,
                               !.looked_up = TRUE, !.details = details,
                               !.mismatch = FlashSizeMismatch(256, details)]
    IN  IF ts # TARGET_HALTED
        THEN ProbeNotHalted(none, info1, reads)
        ELSE IF id_ret # ERROR_OK
        THEN [none EXCEPT !.info = info1, !.accesses = reads, !.ret = id_ret]
        ELSE IF kb3 = 65535
        THEN [looked EXCEPT !.failed_assert = "flash_size_in_kb != 0xffff"]
        ELSE IF ~(num_rows > 0)
        THEN [looked EXCEPT !.failed_assert = "num_rows > 0"]
        ELSE [looked EXCEPT
                 !.bank = [base |-> base_address,
                           size |-> num_rows * row_size,
                           num_sectors |-> num_rows,
                           sectors |-> Sectors(num_rows, row_size)],
                 !.info = [info2 EXCEPT !.probed = 1],
                 !.heap = (IF b.sectors # << >> THEN << "free" >> ELSE << >>)
                              \o << "malloc" >>,
                 !.ret = ERROR_OK]

\* psoc5_auto_probe(bank) without the test of the probed flag
psoc5_auto_probe_AlwaysProbes(b, info, ts, dummy_ret, id_ret, id, max_flash_size_in_kb) ==
    psoc5_probe(b, info, ts, dummy_ret, id_ret, id, max_flash_size_in_kb)

\* psoc5_auto_probe(bank)
psoc5_auto_probe(b, info, ts, dummy_ret, id_ret, id, max_flash_size_in_kb) ==
    IF info.probed # 0
    THEN [bank |-> b, info |-> info, ret |-> ERROR_OK,
          accesses |-> << >>, looked_up |-> FALSE, details |-> NULL,
          mismatch |-> FALSE, heap |-> << >>, failed_assert |-> ""]
    ELSE psoc5_probe(b, info, ts, dummy_ret, id_ret, id, max_flash_size_in_kb)

-----------------------------------------------------------------------------
(* Inputs of the flash driver *)

\* Bank sizes of the flash bank command: none, less than 1 KB, 1 KB,
\* 1.5 KB, and 0xffff KB.
UserSizes == {0, 512, 1024, 1536, 67107840}

\* Base addresses of the flash bank command.
BankBases == {4096}

\* Values of the device ID register: the first table entry (64 KB), a
\* 32 KB and a 128 KB device, the last table entry (256 KB), and the
\* first entry with another value in its low bits, which is the ID of no
\* entry.
SiliconIds == {772804713, 772976745, 772812905, 773677161, 772804714}

\* Results of a target register access.
AccessRets == {ERROR_OK, ERROR_FAIL, ERROR_TARGET_NOT_HALTED}

\* Contents of a variable that was never assigned.
Indeterminate32 == {0, 64}

\* Values of the SPC status register.
StatusValues == {0, 1, 2}

\* What target_read_u8 leaves in the status variable: the register value
\* when it succeeds, any byte (here one with and one without the idle
\* bit) when it fails.
StatusReads ==
    {[ret |-> ERROR_OK, value |-> v] : v \in StatusValues}
    \cup {[ret |-> ERROR_FAIL, value |-> v] : v \in {0, 2}}

\* Commands and argument bytes given to psoc5_spc_command.
SpcCmds == {PSOC5_CMD_LOAD_ROW, PSOC5_CMD_ERASE_ALL, 45, 255}

SpcArgBytes == {0, 165}

SpcArgs ==
    UNION {[1 .. n -> SpcArgBytes] : n \in 0 .. MaxArgs}

-----------------------------------------------------------------------------
(* The operations of a configured flash bank *)

\* FLASH_BANK_COMMAND_HANDLER(psoc5_flash_bank_command): the private data
\* is zeroed and keeps the configured bank size.  The memory allocations
\* of the flash driver are taken to succeed.
InitFlash ==
    /\ KitprogStatics
    /\ target_state \in {TARGET_RUNNING, TARGET_HALTED}
    /\ \E base \in BankBases, size \in UserSizes :
          /\ bank = [base |-> base, size |-> size, num_sectors |-> 0,
                     sectors |-> << >>]
          /\ psoc5_info = [row_size |-> 0, array_size |-> 0,
                           user_bank_size |-> size, probed |-> 0,
                           silicon_id |-> 0, chip_protection |-> 0,
                           cmd_program_row |-> 0]
    /\ fpc = "idle"
    /\ probed_once = FALSE
    /\ fop = [FlashOp("flash_bank") EXCEPT !.ret = ERROR_OK]

\* The target framework halts or resumes the target between operations.
TargetHalt ==
    /\ fpc = "idle"
    /\ target_state # TARGET_HALTED
    /\ target_state' = TARGET_HALTED
    /\ UNCHANGED <<bank, psoc5_info, fpc, fop, probed_once, kitprog_vars>>

TargetResume ==
    /\ fpc = "idle"
    /\ target_state = TARGET_HALTED
    /\ target_state' = TARGET_RUNNING
    /\ UNCHANGED <<bank, psoc5_info, fpc, fop, probed_once, kitprog_vars>>

\* The effect of a probe or auto_probe result r on the state.
ProbeDone(name, r) ==
    /\ bank' = r.bank
    /\ psoc5_info' = r.info
    /\ fpc' = IF r.failed_assert # "" THEN "aborted" ELSE "idle"
    /\ fop' = [FlashOp(name) EXCEPT !.ret = r.ret, !.accesses = r.accesses,
                                    !.looked_up = r.looked_up,
                                    !.details = r.details,
                                    !.mismatch = r.mismatch,
                                    !.heap = r.heap,
                                    !.failed_assert = r.failed_assert,
                                    !.bank_kept = (r.bank = bank),
                                    !.info_kept = (r.info = psoc5_info)]
    /\ probed_once' = (probed_once \/ (r.looked_up /\ r.ret = ERROR_OK))
    /\ UNCHANGED <<target_state, kitprog_vars>>

\* psoc5_flash.probe
Probe ==
    \E dummy_ret \in {ERROR_OK, ERROR_FAIL}, id_ret \in {ERROR_OK, ERROR_FAIL},
       id \in SiliconIds, m \in Indeterminate32 :
        /\ fpc = "idle"
        /\ ProbeDone("probe", psoc5_probe(bank, psoc5_info, target_state,
                                          dummy_ret, id_ret, id, m))

\* psoc5_flash.auto_probe
AutoProbe ==
    \E dummy_ret \in {ERROR_OK, ERROR_FAIL}, id_ret \in {ERROR_OK, ERROR_FAIL},
       id \in SiliconIds, m \in Indeterminate32 :
        /\ fpc = "idle"
        /\ ProbeDone("auto_probe",
                     psoc5_auto_probe(bank, psoc5_info, target_state,
                                      dummy_ret, id_ret, id, m))

-----------------------------------------------------------------------------
(* mass erase *)

\* while (!(status & PSOC5_SPC_IDLE)), testing any bit
IsIdle_AnyBit(status) == status # 0

\* while (!(status & PSOC5_SPC_IDLE))
IsIdle(status) == BitAnd(status, PSOC5_SPC_IDLE) # 0

\* for (i = 0; i < bank->num_sectors; i++) bank->sectors[i].is_erased = 1;
MarkErased(b) ==
    [b EXCEPT !.sectors =
        [i \in DOMAIN b.sectors |->
            IF i - 1 < b.num_sectors
            THEN [b.sectors[i] EXCEPT !.is_erased = 1]
            ELSE b.sectors[i]]]

\* The result of psoc5_handle_mass_erase_command given that of
\* psoc5_mass_erase: the text printed and the code returned.
MassEraseReport(o, retval) ==
    [o EXCEPT !.ret = retval,
              !.printed = IF retval = ERROR_OK
                          THEN "psoc mass erase complete"
                          ELSE "psoc mass erase failed",
              !.handler_ret = ERROR_OK]

\* Number of status reads the running mass erase has made.
Polls == Len(SelectSeq(fop.accesses, LAMBDA a : a.kind = "read_u8"))

\* psoc5 mass_erase: psoc5_mass_erase up to its first status read.
MassErase ==
    \E rets \in [1 .. 3 -> AccessRets] :
        LET o == [FlashOp("mass_erase") EXCEPT !.cmd = PSOC5_CMD_ERASE_ALL]
            c == psoc5_spc_command(PSOC5_CMD_ERASE_ALL, << >>, rets)
        IN  /\ fpc = "idle"
            /\ IF target_state # TARGET_HALTED
               THEN /\ fop' = MassEraseReport(o, ERROR_TARGET_NOT_HALTED)
                    /\ fpc' = fpc
               ELSE IF c.ret # ERROR_OK
               THEN /\ fop' = MassEraseReport(
                                  [o EXCEPT !.accesses = c.accesses], c.ret)
                    /\ fpc' = fpc
               ELSE /\ fop' = [o EXCEPT !.accesses = c.accesses]
                    /\ fpc' = "poll"
            /\ UNCHANGED <<target_state, bank, psoc5_info, probed_once,
                           kitprog_vars>>

\* One turn of do { retval = target_read_u8(target, PSOC5_SPC_STATUS,
\* &status); } while (!(status & PSOC5_SPC_IDLE)); and, when the loop
\* ends, the rest of psoc5_mass_erase and of the command handler.
MassErasePoll ==
    \E r \in StatusReads :
        LET o == [fop EXCEPT
                     !.accesses = Append(@, Access("read_u8", PSOC5_SPC_STATUS,
                                                   r.value, r.ret)),
                     !.status = r.value]
        IN  /\ fpc = "poll"
            /\ Polls < MaxPolls
            /\ IF IsIdle(r.value)
               THEN /\ bank' = MarkErased(bank)
                    /\ fop' = MassEraseReport(
                                  [o EXCEPT !.bank_kept =
                                                (MarkErased(bank) = bank)],
                                  ERROR_OK)
                    /\ fpc' = "idle"
               ELSE /\ bank' = bank
                    /\ fop' = o
                    /\ fpc' = fpc
            /\ UNCHANGED <<target_state, psoc5_info, probed_once,
                           kitprog_vars>>

\* The result of the poll loop reaching MaxPolls reads, had the loop
\* given up there with an error.
MassErasePollOn_GivesUp ==
    /\ fpc = "poll"
    /\ Polls = MaxPolls
    /\ fop' = MassEraseReport(fop, ERROR_FAIL)
    /\ fpc' = "idle"
    /\ UNCHANGED <<target_state, bank, psoc5_info, probed_once, kitprog_vars>>

\* A turn of the same loop after MaxPolls reads: the loop has no counter
\* and no timeout, the turn is like every other.  The history keeps its
\* length: the read takes the place of the last one recorded, and unlogged
\* counts, modulo 2, the reads that were replaced.
MassErasePollOn ==
    \E r \in StatusReads :
        LET n == Len(fop.accesses)
            o == [fop EXCEPT
                     !.accesses[n] = Access("read_u8", PSOC5_SPC_STATUS,
                                            r.value, r.ret),
                     !.status = r.value,
                     !.unlogged = (@ + 1) % 2]
        IN  /\ fpc = "poll"
            /\ Polls = MaxPolls
            /\ IF IsIdle(r.value)
               THEN /\ bank' = MarkErased(bank)
                    /\ fop' = MassEraseReport(
                                  [o EXCEPT !.bank_kept =
                                                (MarkErased(bank) = bank)],
                                  ERROR_OK)
                    /\ fpc' = "idle"
               ELSE /\ bank' = bank
                    /\ fop' = o
                    /\ fpc' = fpc
            /\ UNCHANGED <<target_state, psoc5_info, probed_once,
                           kitprog_vars>>

NextFlash ==
    \/ TargetHalt
    \/ TargetResume
    \/ Probe
    \/ AutoProbe
    \/ MassErase
    \/ MassErasePoll

SpecFlash == InitFlash /\ [][NextFlash]_vars

-----------------------------------------------------------------------------
(* The mass erase poll loop without a bound on the number of turns *)

\* A bank configured with 1 KB and probed on a halted target that answered
\* with the first ID of the table: 4 rows.
InitErase ==
    LET b0 == [base |-> 4096, size |-> 1024, num_sectors |-> 0,
               sectors |-> << >>]
        i0 == [row_size |-> 0, array_size |-> 0, user_bank_size |-> 1024,
               probed |-> 0, silicon_id |-> 0, chip_protection |-> 0,
               cmd_program_row |-> 0]
        r == psoc5_probe(b0, i0, TARGET_HALTED, ERROR_OK, ERROR_OK,
                         psoc5_devices[1].id, 0)
    IN  /\ KitprogStatics
        /\ target_state \in {TARGET_RUNNING, TARGET_HALTED}
        /\ bank = r.bank
        /\ psoc5_info = r.info
        /\ fpc = "idle"
        /\ probed_once = TRUE
        /\ fop = [FlashOp("probe") EXCEPT !.ret = r.ret,
                                          !.accesses = r.accesses,
                                          !.looked_up = r.looked_up,
                                          !.details = r.details,
                                          !.heap = r.heap,
                                          !.pre_state = TARGET_HALTED,
                                          !.pre_probed = 0,
                                          !.pre_probed_once = FALSE,
                                          !.pre_sectors = 0,
                                          !.pre_erased = FALSE,
                                          !.bank_kept = FALSE,
                                          !.info_kept = FALSE]

\* A turn of the poll loop, whatever the number of turns before it.
PollTurn == MassErasePoll \/ MassErasePollOn

\* A turn of the poll loop whose read leaves the idle bit set.
PollSeesIdle == PollTurn /\ IsIdle(fop'.status)

NextErase ==
    \/ TargetHalt
    \/ TargetResume
    \/ MassErase
    \/ MassErasePoll
    \/ MassErasePollOn

\* The processor goes on running the loop: a turn that can be made is made.
\* Nothing is assumed about what the status register shows.
SpecErase == InitErase /\ [][NextErase]_vars /\ WF_vars(PollTurn)

-----------------------------------------------------------------------------
(* psoc5_spc_command on commands with arguments *)

\* The arguments of one call are drawn first; the call is made once.
InitSpc ==
    /\ KitprogStatics
    /\ target_state = TARGET_HALTED
    /\ bank = [base |-> 0, size |-> 0, num_sectors |-> 0, sectors |-> << >>]
    /\ psoc5_info = [row_size |-> 0, array_size |-> 0,
                     user_bank_size |-> 0, probed |-> 0,
                     silicon_id |-> 0, chip_protection |-> 0,
                     cmd_program_row |-> 0]
    /\ fpc = "idle"
    /\ probed_once = FALSE
    /\ \E cmd \in SpcCmds, args \in SpcArgs :
          fop = [FlashOp("spc_arguments") EXCEPT !.cmd = cmd, !.args = args]

\* psoc5_spc_command(target, cmd, args, num_args)
SpcCommand ==
    \E rets \in [1 .. 3 + Len(fop.args) -> AccessRets] :
        LET c == psoc5_spc_command(fop.cmd, fop.args, rets)
        IN  /\ fop.name = "spc_arguments"
            /\ fop' = [fop EXCEPT !.name = "spc_command",
                                  !.accesses = c.accesses, !.ret = c.ret]
            /\ UNCHANGED <<target_state, bank, psoc5_info, fpc,
                           probed_once, kitprog_vars>>

NextSpc == SpcCommand

SpecSpc == InitSpc /\ [][NextSpc]_vars

-----------------------------------------------------------------------------
(* Claims about device identification and probe (SpecFlash) *)

\* A probe or auto_probe that read the device ID and looked it up.
LookedUp == fop.name \in {"probe", "auto_probe"} /\ fop.looked_up

\* The device ID the last probe read.
ProbedId == fop.accesses[2].value

\* The bank size given to the flash bank command.
UserSize == psoc5_info.user_bank_size

\* The positions of the table entries with the given id.
EntriesWithId(id) ==
    {i \in 1 .. Len(psoc5_devices) : psoc5_devices[i].id = id}

\* C11: psoc5_details_by_id returns the entry whose id equals its argument,
\* which is the only such entry of the table, and NULL for an id of no
\* entry; the result depends on the id alone.
C11_LookupIsPure ==
    LookedUp =>
        IF EntriesWithId(ProbedId) = {}
        THEN fop.details = NULL
        ELSE EntriesWithId(ProbedId) = {fop.details}

\* A probe found the device ID in the last entry of the table.
C11_Witness ==
    /\ LookedUp
    /\ fop.details = Len(psoc5_devices)
    /\ psoc5_devices[fop.details].id = ProbedId

\* A device ID without its revision bits, the low 16 bits that
\* get_psoc5_info reports as the chip revision.
WithoutRevision(id) == id - (id % 65536)

\* C12: an ID that differs from a table entry only in its revision bits is
\* identified as that entry's device.
C12_RevisionIgnored ==
    LookedUp =>
        \A i \in 1 .. Len(psoc5_devices) :
            WithoutRevision(psoc5_devices[i].id) = WithoutRevision(ProbedId)
                => fop.details = i

\* C13: a probe that finds the device in the table, for a bank configured
\* without a size, gives the bank the size of the entry: flash_size_in_kb *
\* 1024 bytes in flash_size_in_kb * 4 rows.
C13_RecordSizeAdopted ==
    (LookedUp /\ fop.details # NULL /\ UserSize = 0) =>
        /\ fop.ret = ERROR_OK
        /\ bank.size = psoc5_devices[fop.details].flash_size_in_kb * 1024
        /\ bank.num_sectors = psoc5_devices[fop.details].flash_size_in_kb * 4

\* C14: a probe of a bank configured with a size ends with the bank at
\* exactly that size, in rows of 256 bytes without remainder.
C14_ConfiguredSizeUsed ==
    (LookedUp /\ UserSize # 0) =>
        /\ fop.ret = ERROR_OK
        /\ bank.size = UserSize
        /\ bank.num_sectors * 256 = UserSize

\* C15: the row count a probe computes is strictly positive: the assertion
\* num_rows > 0 does not fail.
C15_RowCountPositive == fop.failed_assert # "num_rows > 0"

\* C16: a probe of a target that is not halted returns
\* ERROR_TARGET_NOT_HALTED without an access to a target register and
\* leaves the bank (base, size, sector table) and the private data (probed
\* flag included) as they were.
C16_ProbeNeedsHaltedTarget ==
    (fop.name = "probe" /\ fop.pre_state # TARGET_HALTED) =>
        /\ fop.ret = ERROR_TARGET_NOT_HALTED
        /\ fop.accesses = << >>
        /\ fop.bank_kept
        /\ fop.info_kept
        /\ psoc5_info.probed = fop.pre_probed

\* A probed bank was probed again while its target was running: it is still
\* probed and has its sector table.
C16_Witness ==
    /\ fop.name = "probe"
    /\ fop.pre_state = TARGET_RUNNING
    /\ fop.ret = ERROR_TARGET_NOT_HALTED
    /\ fop.accesses = << >>
    /\ psoc5_info.probed = 1
    /\ bank.num_sectors > 0

\* C17: a device ID of no table entry does not make probe fail: probe
\* returns ERROR_OK with the configured bank size if there is one and with
\* 256 KB in 1024 rows of 256 bytes otherwise.
C17_UnknownDeviceNotFatal ==
    (LookedUp /\ fop.details = NULL) =>
        /\ fop.ret = ERROR_OK
        /\ UserSize # 0 => bank.size = UserSize
        /\ UserSize = 0 => bank.size = 262144 /\ bank.num_sectors = 1024
        /\ \A i \in 1 .. bank.num_sectors : bank.sectors[i].size = 256

\* What auto_probe has done when it was a no-op: success, no access to a
\* target register, the bank and the private data unchanged.
AutoProbeNoOp ==
    /\ fop.ret = ERROR_OK
    /\ fop.accesses = << >>
    /\ fop.bank_kept
    /\ fop.info_kept

\* C18 as stated: once a probe of the bank has succeeded, auto_probe is a
\* no-op.
C18_NoOpAfterAnySuccess ==
    (fop.name = "auto_probe" /\ fop.pre_probed_once) => AutoProbeNoOp

\* C18: while the probed flag is set, auto_probe is a no-op.  The flag is
\* set only once a probe has succeeded, and a later probe run that finds
\* the target halted and fails leaves it cleared.
C18_NoOpWhileProbed ==
    /\ (fop.name = "auto_probe" /\ fop.pre_probed # 0) => AutoProbeNoOp
    /\ psoc5_info.probed # 0 => probed_once
    /\ (fop.name = "probe" /\ fop.pre_state = TARGET_HALTED
            /\ fop.ret # ERROR_OK) => psoc5_info.probed = 0

\* auto_probe returned at once on a probed bank, although the target is
\* running.
C18_Witness ==
    /\ fop.name = "auto_probe"
    /\ fop.pre_state = TARGET_RUNNING
    /\ fop.ret = ERROR_OK
    /\ fop.accesses = << >>
    /\ psoc5_info.probed = 1
    /\ probed_once

-----------------------------------------------------------------------------
(* Claims about the SPC command codec and the mass erase *)

\* The bytes of an SPC command in the order of the claim: key1, key2 + cmd
\* in 8 bits, cmd, the arguments.
CommandBytes(cmd, args) == <<182, (211 + cmd) % 256, cmd>> \o args

\* The accesses ws are writes of the first Len(ws) bytes of an SPC command
\* to the SPC data register, in order.
WritesOf(ws, cmd, args) ==
    /\ Len(ws) <= 3 + Len(args)
    /\ \A i \in 1 .. Len(ws) :
          /\ ws[i].kind = "write_u8"
          /\ ws[i].address = PSOC5_SPC_CPU_DATA
          /\ ws[i].value = CommandBytes(cmd, args)[i]

\* C19: psoc5_spc_command writes key1, key2 + cmd, cmd and the arguments,
\* in this order and one byte at a time, to the SPC data register; the
\* first failed write is the last one and its error is the result; the
\* result is success only after all 3 + n writes.
C19_SpcCommandSequence ==
    fop.name = "spc_command" =>
        LET ws == fop.accesses
            m == Len(ws)
        IN  /\ m >= 1
            /\ WritesOf(ws, fop.cmd, fop.args)
            /\ \A i \in 1 .. m - 1 : ws[i].ret = ERROR_OK
            /\ fop.ret = ws[m].ret
            /\ m < 3 + Len(fop.args) => ws[m].ret # ERROR_OK
            /\ fop.ret = ERROR_OK => m = 3 + Len(fop.args)

\* Command 0xff with two arguments: key2 + cmd does not fit 8 bits, the
\* write of the first argument failed and the second was not written.
C19_Witness ==
    /\ fop.name = "spc_command"
    /\ fop.cmd = 255
    /\ Len(fop.args) = 2
    /\ Len(fop.accesses) = 4
    /\ fop.accesses[2].value = 210
    /\ fop.accesses[4].ret = ERROR_TARGET_NOT_HALTED
    /\ fop.ret = ERROR_TARGET_NOT_HALTED

\* The status reads of the running or finished mass erase.
StatusPolls ==
    SelectSeq(fop.accesses, LAMBDA a : a.kind = "read_u8")

\* A status read shows the idle bit (bit 1).
ShowsIdle(a) == (a.value \div 2) % 2 = 1

\* The sectors of the bank that are marked erased.
ErasedSectors ==
    {i \in 1 .. bank.num_sectors : bank.sectors[i].is_erased = 1}

FailedAccesses ==
    {i \in 1 .. Len(fop.accesses) : fop.accesses[i].ret # ERROR_OK}

\* C21: a mass erase in which a write of the erase-all command or a read of
\* the status register failed does not return success and leaves the sector
\* marks as they were.
C21_EraseFailureNotDowngraded ==
    (fop.name = "mass_erase" /\ FailedAccesses # {}) =>
        /\ fop.ret # ERROR_OK
        /\ fop.bank_kept

\* C22: the mass_erase command handler returns ERROR_OK exactly when
\* psoc5_mass_erase returned ERROR_OK.
C22_CommandReportsEraseFailure ==
    (fop.name = "mass_erase" /\ fop.handler_ret # NotReturned) =>
        (fop.handler_ret = ERROR_OK <=> fop.ret = ERROR_OK)

\* h is the command byte cmd with bit 0 (start) and bit 7 (park) set, bit 6
\* (stop) cleared and bits 1 .. 5 as they are in cmd.
IsHeaderOf(h, cmd) ==
    /\ h % 2 = 1
    /\ (h \div 2) % 32 = (cmd \div 2) % 32
    /\ (h \div 64) % 2 = 0
    /\ h \div 128 = 1

\* The bytes of the accesses b[1 .. n] on the wire: each one a header byte,
\* a write followed by its value, least significant byte first.
RECURSIVE WireImage(_, _)
WireImage(b, n) ==
    IF n = 0 THEN << >>
    ELSE WireImage(b, n - 1) \o
         << CHOOSE h \in 0 .. 255 : IsHeaderOf(h, b[n].cmd) >> \o
         (IF b[n].read THEN << >>
          ELSE << b[n].data[4], b[n].data[3], b[n].data[2], b[n].data[1] >>)

\* The writes among the accesses b.
WritesIn(b) == {i \in 1 .. Len(b) : ~b[i].read}

\* C23: the bulk write of a flush carries, for the i-th queued access, one
\* header byte - the command byte with start and park set and stop cleared -
\* followed for a write by its four data bytes, least significant first; its
\* length is the number of accesses plus four times the number of writes.
C23_SerializedEntries ==
    (op.flushes = 1 /\ Len(op.bulk) >= 1) =>
        /\ op.bulk[1].ep = EP_OUT
        /\ op.bulk[1].data = WireImage(op.batch, Len(op.batch))
        /\ op.bulk[1].length = Len(op.batch) + 4 * Cardinality(WritesIn(op.batch))
        /\ op.bulk[1].length = Len(op.bulk[1].data)

\* A flush of a write of 0xAABBCCDD with command byte 0x48, then a read with
\* command byte 0x24: six bytes, 0x89 0xdd 0xcc 0xbb 0xaa 0xa5.
C23_Witness ==
    /\ op.flushes = 1
    /\ Len(op.batch) = 2
    /\ ~op.batch[1].read /\ op.batch[1].cmd = 72
    /\ op.batch[1].data = Word(170, 187, 204, 221)
    /\ op.batch[2].read /\ op.batch[2].cmd = 36
    /\ Len(op.bulk) >= 1
    /\ op.bulk[1].length = 6
    /\ op.bulk[1].data = << 137, 221, 204, 187, 170, 165 >>

\* The number of response bytes the accesses b call for: one ack byte each
\* and four data bytes for a read.
Expected(b) == ResponseBytesBefore(b, Len(b) + 1)

\* The 32-bit word whose bytes, least significant first, are r[i + 1 .. i + 4]:
\* the word at offset i of the response r.
WordAt(r, i) == Word(r[i + 4], r[i + 3], r[i + 2], r[i + 1])

\* C24: when both transfers of a flush succeed, the stores are those of the
\* reads with an output word, in queue order, and the word stored for the
\* k-th access is the little-endian word at response offset g + (the
\* response bytes of accesses 1 .. k-1), g being the number of bytes
\* returned beyond the expected count (0 if there are none).  The word is
\* compared wherever the response reaches that far.
C24_DecodedFromOffset ==
    FlushDecoded =>
        LET b == op.batch
            r == op.bulk[2].data
            ret == op.bulk[2].ret
            g == IF ret > Expected(b) THEN ret - Expected(b) ELSE 0
            want == Deliveries(b, Len(b), g)
        IN  /\ Len(r) = ret
            /\ Len(op.stores) = Len(want)
            /\ \A k \in 1 .. Len(want) :
                   LET st == op.stores[k]
                       at == g + ResponseBytesBefore(b, want[k].entry + 1)
                   IN  /\ st.entry = want[k].entry
                       /\ st.slot = want[k].slot
                       /\ st.index = at
                       /\ at + 4 <= ret => st.value = WordAt(r, at)

\* A write, then a read into word 2; the bulk read returned 9 bytes, 3 more
\* than the 6 expected: the word stored is the one at offset 3 + 1.
C24_Witness ==
    /\ FlushDecoded
    /\ Len(op.batch) = 2
    /\ ~op.batch[1].read
    /\ op.batch[2].read /\ op.batch[2].dst = 2
    /\ op.bulk[2].ret = 9
    /\ Len(op.stores) = 1
    /\ op.stores[1].index = 4
    /\ op.stores[1].value = Word(Resp(16, 7), Resp(16, 6), Resp(16, 5), Resp(16, 4))
    /\ op.stores[1].value = Word(65, 58, 51, 44)

\* The transfers of a flush of the non-empty batch b with no sticky error:
\* one bulk write of the serialized bytes and, only after a write that moved
\* bytes, one bulk read that asks for the whole packet buffer.
OneWriteThenOneRead(b, bulk) ==
    /\ Len(bulk) \in {1, 2}
    /\ bulk[1].ep = EP_OUT
    /\ bulk[1].length = Len(b) + 4 * Cardinality(WritesIn(b))
    /\ bulk[1].length = Len(bulk[1].data)
    /\ Len(bulk) = 2 <=> bulk[1].ret > 0
    /\ Len(bulk) = 2 =>
           /\ bulk[2].ep = EP_IN
           /\ bulk[2].length = packet_size

\* C25 as stated: a flush of a non-empty queue with no sticky error makes one
\* bulk write of the serialized length and, only if it succeeded, one bulk
\* read of the full packet size; a flush of an empty queue makes no transfer
\* and returns success.
C25_EmptyFlushSucceeds ==
    op.flushes = 1 =>
        /\ (Len(op.batch) > 0 /\ op.pre_qret = ERROR_OK) =>
               OneWriteThenOneRead(op.batch, op.bulk)
        /\ Len(op.batch) = 0 => (op.bulk = << >> /\ op.ret = ERROR_OK)

\* C25, amended: as above, but a flush of an empty queue returns success
\* only when no sticky error is set; with a sticky error it makes no
\* transfer and returns that error.
C25_OneWriteThenOneRead ==
    op.flushes = 1 =>
        /\ (Len(op.batch) > 0 /\ op.pre_qret = ERROR_OK) =>
               OneWriteThenOneRead(op.batch, op.bulk)
        /\ Len(op.batch) = 0 => (op.bulk = << >> /\ op.ret = op.pre_qret)

\* A flush of one queued write: one response byte is expected and the bulk
\* read asks for the whole packet buffer.
C25_Witness ==
    /\ op.name = "run"
    /\ Len(op.batch) = 1
    /\ ~op.batch[1].read
    /\ op.pre_qret = ERROR_OK
    /\ Len(op.bulk) = 2
    /\ op.bulk[1].length = 5
    /\ Expected(op.batch) = 1
    /\ op.bulk[2].length = packet_size
    /\ packet_size > Expected(op.batch)

\* C26: a flush whose bulk write moved no byte or returned an error issues
\* no bulk read and makes no store; a flush whose bulk read moved no byte or
\* returned an error makes no store; either flush returns ERROR_FAIL after
\* that one attempt and leaves the queue empty.
C26_FailedTransferEndsFlush ==
    (op.flushes = 1 /\ Len(op.bulk) >= 1) =>
        LET n == Len(op.bulk)
        IN  /\ op.bulk[1].ret <= 0 => n = 1
            /\ op.bulk[n].ret <= 0 =>
                   /\ n <= 2
                   /\ op.bulk[1].ep = EP_OUT
                   /\ n = 2 => op.bulk[2].ep = EP_IN
                   /\ op.stores = << >>
                   /\ op.ret = ERROR_FAIL
                   /\ pending_transfer_count = 0
                   /\ enq = << >>

\* An explicit flush of a write and a read into word 1 whose bulk write
\* succeeded and whose bulk read returned an error.
C26_Witness ==
    /\ op.name = "run"
    /\ Len(op.batch) = 2
    /\ op.batch[2].read /\ op.batch[2].dst = 1
    /\ Len(op.bulk) = 2
    /\ op.bulk[1].ret = 6
    /\ op.bulk[2].ret = -1
    /\ op.stores = << >>
    /\ op.ret = ERROR_FAIL
    /\ pending_transfer_count = 0

\* C27: a flush whose bulk read returned fewer bytes than the queued
\* accesses call for (one per access and four more per read) does not store
\* into the callers' words and return success.
C27_ShortResponseNotDecoded ==
    (op.flushes = 1 /\ Len(op.bulk) = 2
        /\ op.bulk[2].ret < Expected(op.batch)) =>
            ~(op.ret = ERROR_OK /\ op.stores # << >>)

\* The hid_open call of kitprog_usb_open, if it was made.
HidOpenCalls == SelectSeq(usb_log, LAMBDA c : c.fn = "hid_open")

\* C29: kitprog_usb_open passes to hid_open the serial number it read from
\* the adapter whose bulk interface it claimed - never an indeterminate,
\* NULL or freed pointer - and when it succeeds both handles are those of
\* the same adapter.
C29_HidOpenedWithReadSerial ==
    /\ \A i \in 1 .. Len(HidOpenCalls) :
           /\ HidOpenCalls[i].arg \in Units
           /\ HidOpenCalls[i].arg = kitprog_handle.usb_handle
    /\ (Len(calls) > 0 /\ calls[1].fn = "usb_open" /\ calls[1].ret = ERROR_OK) =>
           kitprog_handle.hid_handle = kitprog_handle.usb_handle

\* The calls kitprog_init makes before the acquire loop, in program order.
StepsBeforeLoop ==
    << "usb_open", "get_version", "get_millivolts", "set_unknown",
       "set_protocol", "swd_reset" >>

\* The i-th call of kitprog_init is a step that failed: any call but a
\* status query that did not return ERROR_OK.  (A failed status query sends
\* the acquire loop on to the next device type; the loop as a whole fails
\* when the last query fails.)
StepFailed(i) ==
    /\ calls[i].ret # ERROR_OK
    /\ IsStatus(calls[i]) => Len(StatusCalls) = 3 /\ i = Len(calls)

\* C28: kitprog_init calls open, get version, get voltage, set_unknown,
\* set_protocol(SWD), swd_reset and then the acquire loop, in this order; a
\* step that fails is the last call made and init returns a failure code;
\* init returns ERROR_OK only after every step succeeded, the loop ended on
\* a successful status query and the transaction queue was allocated.
C28_InitStepsFailFast ==
    DuringInit =>
        LET n == Len(calls)
            m == Len(StepsBeforeLoop)
        IN  /\ \A i \in 1 .. n :
                   /\ i <= m => calls[i].fn = StepsBeforeLoop[i]
                   /\ i > m => \/ IsAcquire(calls[i])
                               \/ IsStatus(calls[i])
                               \/ calls[i].fn = "malloc" /\ i = n
                   /\ calls[i].fn = "set_protocol" =>
                          calls[i].index = PROTOCOL_SWD
                   /\ calls[i].fn = "malloc" =>
                          IsStatus(calls[i - 1]) /\ calls[i - 1].ret = ERROR_OK
                   /\ StepFailed(i) =>
                          /\ i = n
                          /\ pc \in {"returned", "crashed"}
                          /\ init_ret # ERROR_OK
            /\ pc = "returned" <=> (n > 0 /\ StepFailed(n)
                                      /\ calls[n].ret # NotReturned)
            /\ pc = "returned" =>
                   init_ret \in {ERROR_FAIL, ERROR_JTAG_INIT_FAILED}
            /\ pc = "crashed" => init_ret = NotReturned
            /\ init_ret = ERROR_OK <=> pc = "ready"
            /\ init_ret = ERROR_OK =>
                   /\ n > m + 2
                   /\ \A i \in 1 .. n : ~IsStatus(calls[i]) => calls[i].ret = ERROR_OK
                   /\ calls[n].fn = "malloc"
                   /\ pending_queue_len = QueueLen(SWD_MAX_BUFFER_LENGTH)
                   /\ DOMAIN pending_transfers = 0 .. pending_queue_len - 1

\* kitprog_init returned ERROR_FAIL right after swd_reset failed, the sixth
\* call; no acquire request was sent.
C28_Witness ==
    /\ DuringInit
    /\ pc = "returned"
    /\ init_ret = ERROR_FAIL
    /\ Len(calls) = 6
    /\ calls[6].fn = "swd_reset"
    /\ calls[6].ret = ERROR_FAIL
    /\ AcquireCalls = << >>
    /\ pending_transfers = << >>

\* The last operation was a probe (direct, or through auto_probe) that ran
\* to the end and returned ERROR_OK.
ProbeSucceeded ==
    fop.name \in {"probe", "auto_probe"} /\ fop.looked_up /\ fop.ret = ERROR_OK

\* C30: after a successful probe the bank's sector table is newly built:
\* the table the bank had, if any, was freed before the new one was
\* allocated; it has num_sectors rows, row i (from 0) at offset i * 256 with
\* size 256, so that the rows tile the bank size num_sectors * 256; every
\* row is marked erase-state unknown (-1) and protected (1).
C30_FreshSectorTable ==
    ProbeSucceeded =>
        /\ fop.heap = (IF fop.pre_sectors > 0
                       THEN << "free", "malloc" >> ELSE << "malloc" >>)
        /\ bank.num_sectors > 0
        /\ Len(bank.sectors) = bank.num_sectors
        /\ bank.size = bank.num_sectors * 256
        /\ \A i \in 1 .. bank.num_sectors :
               /\ bank.sectors[i].offset = (i - 1) * 256
               /\ bank.sectors[i].size = 256
               /\ bank.sectors[i].is_erased = -1
               /\ bank.sectors[i].is_protected = 1

\* A probe re-run on a bank of 1024 rows that a mass erase had marked
\* erased: the old table was freed and no row of the new one is marked.
C30_Witness ==
    /\ ProbeSucceeded
    /\ fop.name = "probe"
    /\ fop.pre_sectors = 1024
    /\ fop.pre_erased
    /\ fop.heap = << "free", "malloc" >>
    /\ bank.num_sectors = 1024
    /\ ErasedSectors = {}

\* C31: the poll loop of mass_erase has no bound.  While it polls, nothing
\* has been returned or printed; it is left only by a read that leaves the
\* idle bit set, and then ERROR_OK is returned; a mass erase that goes on
\* polling makes reads without end; and if a read that
\* shows idle is made whenever one keeps being possible (the hardware
\* eventually sets idle), every polling mass erase returns.
C31_PollsUntilIdle ==
    /\ [](fpc = "poll" => (fop.ret = NotReturned /\ fop.printed = ""))
    /\ [][(fpc = "poll" /\ fpc' # "poll") =>
             (IsIdle(fop'.status) /\ fop'.ret = ERROR_OK)]_vars
    /\ <>[](fpc # "poll") \/ []<>(<<PollTurn>>_vars)
    /\ WF_vars(PollSeesIdle) => ((fpc = "poll") ~> (fop.ret = ERROR_OK))

\* A mass erase still polling after more reads than the history holds.
C31_Witness ==
    /\ fpc = "poll"
    /\ Polls = MaxPolls
    /\ fop.unlogged = 1
    /\ fop.ret = NotReturned
    /\ \A i \in 1 .. Len(StatusPolls) : ~ShowsIdle(StatusPolls[i])

\* C32: between operations a set sticky error comes with an empty queue;
\* after a flush run by the caller the queue is empty and the sticky error
\* clear; the sticky error is set only by the failed implicit flush of an
\* enqueue, is returned by the next flush the caller runs, which clears it,
\* and a flush run right after any flush returns ERROR_OK without a
\* transfer.
C32_StickyErrorReportedOnce ==
    /\ [](queued_retval # ERROR_OK => pending_transfer_count = 0)
    /\ [](op.name = "run" =>
             (pending_transfer_count = 0 /\ queued_retval = ERROR_OK))
    /\ [](queued_retval # ERROR_OK =>
             /\ IsEnqueue
             /\ \/ op.flushes = 1 /\ op.ret = queued_retval
                \/ op.flushes = 0 /\ op.pre_qret = queued_retval)
    /\ []((op.name = "run" /\ op.pre_qret # ERROR_OK) =>
             (op.ret = op.pre_qret /\ op.bulk = << >>))
    /\ [][(op.name = "run" /\ op'.name = "run") =>
             (op'.pre_qret = ERROR_OK /\ op'.pre_count = 0
              /\ op'.ret = ERROR_OK /\ op'.bulk = << >>)]_vars

\* The flush that reports the failure of an earlier implicit flush: it
\* returns the error, transfers nothing and leaves the error clear.
C32_Witness ==
    /\ op.name = "run"
    /\ op.pre_qret = ERROR_FAIL
    /\ op.pre_count = 0
    /\ op.ret = ERROR_FAIL
    /\ op.bulk = << >>
    /\ queued_retval = ERROR_OK
    /\ pending_transfer_count = 0

\* The decode cursor (read_index) of the last flush after its first i
\* entries; i = 0 gives the cursor the decode loop starts from.  An explicit
\* flush leaves the queue array as it was.
CursorAfter(i) ==
    Decode(pending_transfers, i, packet_buffer(packet_size),
           [read_index |->
                GarbageOffset(op.bulk[2].ret,
                              ReadCount(pending_transfers, op.pre_count)),
            stores |-> << >>]).read_index

\* The buffer indexes the decode loop of the last flush read from: four
\* bytes from the cursor for every read entry.
DecodeReads ==
    UNION {CursorAfter(i - 1) .. CursorAfter(i - 1) + 3 :
               i \in {k \in 1 .. op.pre_count : op.batch[k].read}}

\* The last operation was a flush run by the caller that decoded a response.
ExplicitFlushDecoded == op.name = "run" /\ FlushDecoded

\* C33 as stated: for a queue of up to 102 entries and a bulk read that
\* returned 1 to 512 bytes, serialization writes at most 510 bytes, every
\* byte the decoder reads is inside the 512-byte buffer, and the decode
\* cursor never reaches 512.
C33_CursorBelowBufferEnd ==
    /\ pending_queue_len = 102
    /\ (op.name = "run" /\ Len(op.bulk) >= 1) =>
           /\ op.bulk[1].length <= 510
           /\ op.bulk[1].length = Len(op.bulk[1].data)
    /\ ExplicitFlushDecoded =>
           /\ op.bulk[2].ret \in 1 .. 512
           /\ \A k \in DecodeReads : k \in 0 .. 511
           /\ \A i \in 0 .. op.pre_count : CursorAfter(i) < 512

\* C33, amended: as above, but the cursor may end at 512: it never exceeds
\* 512, it is 512 only after the last entry, and every byte the decoder
\* reads is at an index of at most 510.
C33_AccessesInsideBuffer ==
    /\ pending_queue_len = 102
    /\ (op.name = "run" /\ Len(op.bulk) >= 1) =>
           /\ op.bulk[1].length <= 510
           /\ op.bulk[1].length = Len(op.bulk[1].data)
    /\ ExplicitFlushDecoded =>
           /\ op.bulk[2].ret \in 1 .. 512
           /\ \A k \in DecodeReads : k \in 0 .. 510
           /\ \A i \in 0 .. op.pre_count :
                  /\ CursorAfter(i) <= 512
                  /\ i < op.pre_count => CursorAfter(i) < 512

\* A flush of 102 reads whose bulk read returned 512 bytes: decoding starts
\* at index 2, the last word is read from 507 .. 510 and the cursor ends at
\* 512.
C33_Witness ==
    /\ ExplicitFlushDecoded
    /\ op.pre_count = 102
    /\ \A k \in 1 .. 102 : op.batch[k].read
    /\ op.bulk[2].ret = 512
    /\ CursorAfter(0) = 2
    /\ CursorAfter(101) = 507
    /\ CursorAfter(102) = 512
    /\ Len(op.stores) = 102

\* Values of an ack byte: the SWD acknowledgements OK, WAIT and FAULT.
AckValues == {1, 2, 4}

\* The places, counted from 1, of the ack bytes in a response of ret bytes
\* to the accesses b: the byte after the four data bytes of a read, the
\* only byte of a write, behind g skipped bytes.
AckPositions(b, ret) ==
    {SkippedBytes(b, ret) + ResponseBytesBefore(b, i + 1) : i \in 1 .. Len(b)}
        \cap (1 .. ret)

\* The responses that differ from r in ack bytes only.
AckVariants(b, r) ==
    {[k \in 1 .. Len(r) |-> IF k \in AckPositions(b, Len(r)) THEN f[k] ELSE r[k]] :
         f \in [AckPositions(b, Len(r)) -> AckValues]}

\* C34: the outcome of a flush does not depend on the ack bytes: had the
\* bulk read of a flush delivered a response of the same length that
\* differs only in ack bytes - OK, WAIT or FAULT in any of them - the flush
\* would have returned the same code and made the same stores.
C34_AckBytesIgnored ==
    [][(op'.flushes = 1 /\ Len(op'.bulk) = 2) =>
          \A r2 \in AckVariants(op'.batch, op'.bulk[2].data) :
              LET o2 == RunQueueWith([wret |-> op'.bulk[1].ret,
                                      rret |-> op'.bulk[2].ret,
                                      seed |-> 0], r2)
              IN  /\ o2.ret = op'.ret
                  /\ o2.stores = op'.stores
                  /\ o2.bulk[2].data = r2]_vars

\* A flush run by the caller of a read into word 1 and a read into word 2
\* that returned ERROR_OK and made both stores: the same stores come out of a
\* response whose two ack bytes are FAULT.
C34_Witness ==
    /\ op.name = "run"
    /\ FlushDecoded
    /\ Len(op.batch) = 2
    /\ op.bulk[2].ret = 10
    /\ AckPositions(op.batch, 10) = {5, 10}
    /\ Len(op.stores) = 2
    /\ \E r2 \in AckVariants(op.batch, op.bulk[2].data) :
           /\ r2[5] = 4 /\ r2[10] = 4
           /\ r2 # op.bulk[2].data
           /\ Decode(pending_transfers, op.pre_count,
                     Fill(packet_buffer(packet_size), r2),
                     [read_index |-> 0, stores |-> << >>]).stores = op.stores

=============================================================================
